---- MODULE Spec2Model ----
(***************************************************************************)
(* The script execution engine of tsar (src/doc.go): one script run on one *)
(* host (a *testing.T subtest or the standalone testResultCapture), line   *)
(* by line, with foreground exec, named background jobs and wait.          *)
(*                                                                         *)
(* Strings are sequences of one-character strings, so that the string      *)
(* functions of the code (Cut, Contains, TrimPrefix, the background        *)
(* specifier regexp, Join) are computed and not assumed.                   *)
(***************************************************************************)
EXTENDS Integers, Sequences, FiniteSets, TLC

VARIABLES
    host,        \* which TestingT runs the script: "testing" or "standalone"
    pc,          \* position of the main flow: "run", "spawn", "wait", "done", "panic"
    lineno,      \* ts.lineno
    line,        \* the line being (or last) dispatched: [neg, verb, args]
    lineFatal,   \* the host's Fatal/Fatalf was called while handling `line`
    failed,      \* t.Failed()
    skipped,     \* t.Skip ended the script (testing host)
    stopped,     \* ts.stopped
    cd,          \* ts.cd
    env,         \* ts.env: a slice header [arr, len] into heap
    envMap,      \* ts.envMap
    heap,        \* backing arrays of []string slices: heap[a] has cap(a) slots
    stdout,      \* ts.stdout
    stderr,      \* ts.stderr
    background,  \* ts.background: the registry, a sequence of backgroundCmd copies
    jobs,        \* one record per spawned goroutine: its *exec.Cmd and local bg
    dirs,        \* directories that exist below the work directory
    bgcmds,      \* cmdWait: the jobs to join (registry indexes, 0 for a nil pointer)
    stdouts,     \* cmdWait: outputs collected so far
    stderrs,     \* cmdWait: error outputs collected so far
    params,      \* ts.params: RequireExplicitExec, ContinueOnError, Commands
    script,      \* the position in the suite of the script being run (from 1)
    results,     \* what the suite has reported for each script that ended
    parsed,      \* what parseLine did with the last line: [kind, raw]
    httpState,   \* the retained response of the last http line, or NoHTTP
    project,     \* the project run around the suite, or NoProject
    flakyCount   \* the requests the test server has had at /flaky

vars == <<host, pc, lineno, line, lineFatal, failed, skipped, stopped, cd, env,
          envMap, heap, stdout, stderr, background, jobs, dirs, bgcmds,
          stdouts, stderrs, params, script, results, parsed, httpState,
          project, flakyCount>>

(* ------------------------------ bounds -------------------------------- *)

\* Script lines dispatched in one run.
MaxLines == 3

\* Background jobs spawned in one run.
MaxJobs == 2

\* Script files of one suite.
MaxScripts == 3

\* Characters of the generated part of a line of text.
MaxLen == 2

(* --------------------------- string helpers --------------------------- *)

\* strings.Index for a one-character separator: 0 when absent.
IndexOf(s, c) ==
    IF \E i \in 1..Len(s) : s[i] = c
    THEN CHOOSE i \in 1..Len(s) : s[i] = c /\ \A j \in 1..(i-1) : s[j] # c
    ELSE 0

\* strings.Cut(s, "="): [before, after, found].
Cut(s, c) ==
    LET i == IndexOf(s, c)
    IN  IF i = 0 THEN [before |-> s, after |-> <<>>, found |-> FALSE]
        ELSE [before |-> SubSeq(s, 1, i-1), after |-> SubSeq(s, i+1, Len(s)),
              found |-> TRUE]

\* strings.Contains.
Contains(s, sub) ==
    \E i \in 0..(Len(s) - Len(sub)) : SubSeq(s, i+1, i+Len(sub)) = sub

\* strings.ContainsRune(s, '/').
ContainsRune(s, c) == \E i \in 1..Len(s) : s[i] = c

\* strings.TrimPrefix(s, "&") and strings.TrimSuffix(s, "&").
TrimPrefix(s, c) == IF Len(s) > 0 /\ s[1] = c THEN Tail(s) ELSE s
TrimSuffix(s, c) == IF Len(s) > 0 /\ s[Len(s)] = c THEN SubSeq(s, 1, Len(s)-1) ELSE s

\* strings.Join(parts, "").
RECURSIVE Join(_)
Join(parts) == IF parts = <<>> THEN <<>> ELSE Head(parts) \o Join(Tail(parts))

\* fmt.Sprintf("%d", n) for n >= 0.
Digit(n) == CASE n = 0 -> "0" [] n = 1 -> "1" [] n = 2 -> "2" [] n = 3 -> "3"
              [] n = 4 -> "4" [] n = 5 -> "5" [] n = 6 -> "6" [] n = 7 -> "7"
              [] n = 8 -> "8" [] OTHER -> "9"
RECURSIVE Itoa(_)
Itoa(n) == IF n < 10 THEN <<Digit(n)>> ELSE Itoa(n \div 10) \o <<Digit(n % 10)>>

\* The character classes of the regexp `^&([a-zA-Z_]\w*)?(&)?$`.
Letters == {"a", "b", "g", "x", "z", "_"}
Digits  == {"0", "1", "2", "3", "4", "5", "6", "7", "8", "9"}
IsIdent(s) ==
    /\ Len(s) > 0
    /\ s[1] \in Letters
    /\ \A i \in 2..Len(s) : s[i] \in Letters \cup Digits

\* backgroundSpecifier.MatchString: "&", an optional identifier, an optional "&".
backgroundSpecifier(tok) ==
    /\ Len(tok) > 0
    /\ tok[1] = "&"
    /\ LET rest == Tail(tok)
           body == TrimSuffix(rest, "&")
       IN  \/ rest = <<>>
           \/ IsIdent(rest)
           \/ body = <<>>
           \/ IsIdent(body)

(* ------------------------ the world outside --------------------------- *)

\* The work directory of the run (ts.workdir) and the directory below it that
\* the script's cd, mkdir and rm lines name.
WorkDir == <<"/", "w">>
SubDir  == <<"d">>

\* filepath.Join(dir, name) for a plain relative name.
JoinPath(dir, name) == dir \o <<"/">> \o name

\* A txtar file extracted into the work directory by run(), and its content.
DataFile    == <<"f">>
DataContent == <<"o", "k">>

\* Program names a script passes to exec.
ProgOk      == <<"o", "k">>          \* on PATH; prints "o" and "e", exits 0
ProgKo      == <<"k", "o">>          \* on PATH; prints "k" and "r", exits 1
ProgMissing == <<"n", "o">>          \* a bare name that is on no PATH
ProgNoFile  == <<".", "/", "n", "o">> \* a path to a file that does not exist
Programs    == {ProgOk, ProgKo, ProgMissing, ProgNoFile}

\* A program that is in a directory of its own; prints "h", exits 0.
ProgHelper == <<"h">>

\* The directory of the host's programs and the directory of the helper.
BinDir    == <<"/", "b">>
HelperDir == <<"/", "x">>

\* The executable files of a directory.
Installed(dir) ==
    IF dir = BinDir THEN {ProgOk, ProgKo}
    ELSE IF dir = HelperDir THEN {ProgHelper}
    ELSE {}

\* os.Getenv("PATH") of the process that runs the suite.
HostPath == BinDir

\* A lookup of a bare name in the one directory a PATH value names.
LookPathOf(path, name) == name \in Installed(path)

\* exec.LookPath(name): the bare names found on the PATH of the host process.
LookPath(name) == name \in Installed(HostPath)

\* What a started program does: its exit status and what it writes.
ExitCode(prog)   == IF prog \in {ProgOk, ProgHelper} THEN 0 ELSE 1
ProgStdout(prog) ==
    IF prog = ProgOk THEN <<"o">>
    ELSE IF prog = ProgHelper THEN <<"h">>
    ELSE <<"k">>
ProgStderr(prog) == IF prog = ProgOk THEN <<"e">> ELSE <<"r">>

\* cmd.Start succeeds: the file named by the command exists and is executable.
CanStart(prog) == prog # ProgNoFile

(* ------------------- Go slices of strings (ts.env) -------------------- *)

\* The zero value of a slot beyond a slice's length.
NoEntry == <<>>

\* The elements a slice header denotes.
SliceVal(h, hdr) == SubSeq(h[hdr.arr], 1, hdr.len)

\* Capacity growslice gives a full slice of strings that append extends by one.
GrowCap(c) == IF c = 0 THEN 1 ELSE 2 * c

\* append(slice, e): [heap, hdr]. In place when the capacity allows, otherwise
\* into a fresh backing array.
AppendSlice(h, hdr, e) ==
    IF hdr.len < Len(h[hdr.arr])
    THEN [heap |-> [h EXCEPT ![hdr.arr][hdr.len + 1] = e],
          hdr  |-> [arr |-> hdr.arr, len |-> hdr.len + 1]]
    ELSE LET old == h[hdr.arr]
             new == SubSeq(old, 1, hdr.len) \o <<e>>
                    \o [i \in 1..(GrowCap(Len(old)) - hdr.len - 1) |-> NoEntry]
         IN  [heap |-> Append(h, new),
              hdr  |-> [arr |-> Len(h) + 1, len |-> hdr.len + 1]]

\* The environment setup() builds: a four-element literal, then one append.
EnvInitLen == 5
EnvInitCap == 8
InitEnv ==
    << <<"W", "O", "R", "K", "=", "/", "w">>,
       <<"P", "A", "T", "H", "=", "/", "b">>,
       <<"H", "O", "M", "E", "=", "/", "n">>,
       <<"T", "M", "P", "D", "I", "R", "=", "/", "w", "/", "t">>,
       <<"e", "x", "e", "=">> >>

\* refreshEnvMap / the loop at the end of setup(): key -> value of every entry
\* that holds an "=", the last entry of a key winning.
EnvMapOf(entries) ==
    LET keys == {Cut(entries[i], "=").before :
                    i \in {j \in 1..Len(entries) : Cut(entries[j], "=").found}}
    IN  [k \in keys |->
            LET last == CHOOSE i \in 1..Len(entries) :
                            /\ Cut(entries[i], "=").found
                            /\ Cut(entries[i], "=").before = k
                            /\ \A j \in (i+1)..Len(entries) :
                                 ~(Cut(entries[j], "=").found
                                   /\ Cut(entries[j], "=").before = k)
            IN  Cut(entries[last], "=").after]

(* ------------------------------ Init ---------------------------------- *)

NoLine == [neg |-> FALSE, verb |-> "", args |-> <<>>]

\* Nothing parsed yet.
NoParse == [kind |-> "", raw |-> NoLine]

\* Params.Condition when nil.
NoCondition == [nil |-> TRUE, sat |-> {}, known |-> {}]

\* The zero value of Params but for Commands: the one custom command the
\* repository's tests register. Short is the -test.short flag of the process.
DefaultParams ==
    [RequireExplicitExec |-> FALSE, ContinueOnError |-> FALSE,
     Commands |-> {"custom"}, Condition |-> NoCondition, Short |-> FALSE]

\* No http line has run yet in this script.
NoHTTP == [status |-> 0]

\* The suite is run by Run or RunStandalone, without a project around it.
NoProject == [at |-> "none"]

\* The first script of a suite after setup(), on either host.
FirstScript ==
    /\ host \in {"testing", "standalone"}
    /\ script = 1
    /\ results = <<>>
    /\ parsed = NoParse
    /\ pc = "run"
    /\ lineno = 0
    /\ line = NoLine
    /\ lineFatal = FALSE
    /\ failed = FALSE
    /\ skipped = FALSE
    /\ stopped = FALSE
    /\ cd = WorkDir
    /\ heap = << [i \in 1..EnvInitCap |->
                    IF i <= EnvInitLen THEN InitEnv[i] ELSE NoEntry] >>
    /\ env = [arr |-> 1, len |-> EnvInitLen]
    /\ envMap = EnvMapOf(InitEnv)
    /\ stdout = <<>>
    /\ stderr = <<>>
    /\ background = <<>>
    /\ jobs = <<>>
    /\ dirs = {}
    /\ bgcmds = <<>>
    /\ stdouts = <<>>
    /\ stderrs = <<>>
    /\ httpState = NoHTTP
    /\ project = NoProject
    /\ flakyCount = 0

Init == params = DefaultParams /\ FirstScript

(* --------------------------- script lines ----------------------------- *)

\* A parsed line: the negation flag, the verb args[0] and the words after it
\* (args[i] of the code is args[i] here, len(args) of the code is Len(args)+1).
Ln(n, v, a) == [neg |-> n, verb |-> v, args |-> a]

NameA   == <<"a">>
NameBg0 == <<"b", "g", "0">>
NameZ   == <<"z">>

\* Trailing tokens that ask for background execution.
BgSpecs == { <<"&">> \o NameA, <<"&">> }

EnvWords == { <<"K", "=", "1">>, <<"P", "A", "T", "H", "=", "/", "x">> }

WaitWords == { <<>>, <<NameA>>, <<NameBg0>>, <<NameA, NameBg0>>, <<NameZ>> }

Lines ==
    {Ln(n, "exec", <<p>>) : n \in BOOLEAN, p \in Programs}
    \cup {Ln(n, "exec", <<p, b>>) : n \in BOOLEAN, p \in Programs, b \in BgSpecs}
    \cup {Ln(n, "wait", w) : n \in BOOLEAN, w \in WaitWords}
    \cup {Ln(n, "env", <<e>>) : n \in BOOLEAN, e \in EnvWords}
    \cup {Ln(n, v, <<SubDir>>) : n \in BOOLEAN, v \in {"cd", "mkdir", "rm", "exists"}}
    \cup {Ln(n, "grep", <<<<"o">>, f>>) : n \in BOOLEAN, f \in {DataFile, SubDir}}
    \cup {Ln(n, "stdout", <<<<"o">>>>) : n \in BOOLEAN}
    \cup {Ln(n, "stderr", <<<<"r">>>>) : n \in BOOLEAN}
    \cup {Ln(n, v, <<>>) : n \in BOOLEAN, v \in {"stop", "skip", "custom"}}

(* ----------------------------- conditions ---------------------------- *)

\* runtime.GOOS of the host the suite runs on.
GOOS == "linux"

\* A condition that takes a tag behind any number of "!" for the tag itself.
RECURSIVE conditionIgnoresBang(_)
conditionIgnoresBang(cond) ==
    IF ~params.Condition.nil
    THEN [ok |-> cond \in params.Condition.sat,
          err |-> cond \notin params.Condition.known]
    ELSE IF cond = <<"short">> THEN [ok |-> params.Short, err |-> FALSE]
    ELSE IF cond = <<"windows">> THEN [ok |-> GOOS = "windows", err |-> FALSE]
    ELSE IF cond = <<"darwin">> THEN [ok |-> GOOS = "darwin", err |-> FALSE]
    ELSE IF cond = <<"linux">> THEN [ok |-> GOOS = "linux", err |-> FALSE]
    ELSE IF cond # <<>> /\ Head(cond) = "!"
    THEN conditionIgnoresBang(Tail(cond))
    ELSE [ok |-> FALSE, err |-> TRUE]

\* ts.condition: the tag as a "!" sequence followed by a name; [ok, err].
\* Params.Condition, when not nil, is called with the whole tag and decides.
\* Of the built-in tags an unknown name is an error and "!" inverts ok.
RECURSIVE condition(_)
condition(cond) ==
    IF ~params.Condition.nil
    THEN [ok |-> cond \in params.Condition.sat,
          err |-> cond \notin params.Condition.known]
    ELSE IF cond = <<"short">> THEN [ok |-> params.Short, err |-> FALSE]
    ELSE IF cond = <<"windows">> THEN [ok |-> GOOS = "windows", err |-> FALSE]
    ELSE IF cond = <<"darwin">> THEN [ok |-> GOOS = "darwin", err |-> FALSE]
    ELSE IF cond = <<"linux">> THEN [ok |-> GOOS = "linux", err |-> FALSE]
    ELSE IF cond # <<>> /\ Head(cond) = "!"
    THEN [ok |-> ~condition(Tail(cond)).ok, err |-> condition(Tail(cond)).err]
    ELSE [ok |-> FALSE, err |-> TRUE]

\* The line starts with a [cond] tag that is not empty.
HasCond(l) == "cond" \in DOMAIN l /\ l.cond # <<>>

(* ------------------------- the host (TestingT) ------------------------ *)

\* testing.T's Fatal/Fatalf end the goroutine of the script (runtime.Goexit);
\* the standalone testResultCapture only sets failed and returns to the caller.
FatalReturns == host = "standalone"

\* The line's handler returned to run(): the loop breaks on Failed() or stopped.
\* A Fatalf of parseLine that returned before the handler ran counts as well.
Flags(fatal, stop) ==
    LET any == fatal \/ ("cond" \in DOMAIN parsed'.raw
                          /\ parsed'.raw.cond # <<>>
                          /\ condition(parsed'.raw.cond).err)
    IN  /\ lineFatal' = any
        /\ failed' = (failed \/ any)
        /\ stopped' = stop
        /\ skipped' = skipped
        /\ pc' = IF failed \/ any \/ stop THEN "done" ELSE "run"

\* Fatal on the testing host: the handler is abandoned where it stands.
Goexit ==
    /\ lineFatal' = TRUE
    /\ failed' = TRUE
    /\ UNCHANGED <<stopped, skipped>>
    /\ pc' = "done"

\* A run-time panic of the engine (nil dereference) after a Fatal that returned.
Panic ==
    /\ lineFatal' = TRUE
    /\ failed' = TRUE
    /\ UNCHANGED <<stopped, skipped>>
    /\ pc' = "panic"

suiteVars == <<params, script, results>>

\* The names of the built-in table.
builtinCmds ==
    {"cd", "cp", "env", "exec", "exists", "grep", "mkdir", "rm", "skip",
     "stderr", "stdout", "stop", "wait"}

\* A resolution that looks in the caller's table before the built-in one.
ResolveUserFirst(cmd, p) ==
    IF cmd \in p.Commands THEN "user"
    ELSE IF cmd \in builtinCmds THEN "builtin"
    ELSE IF ~p.RequireExplicitExec THEN "exec"
    ELSE "unknown"

\* cmdExec's resolution of args[0]: the built-in table, then the caller's
\* table, then exec unless RequireExplicitExec, else the unknown-command error.
Resolve(cmd, p) ==
    IF cmd \in builtinCmds THEN "builtin"
    ELSE IF cmd \in p.Commands THEN "user"
    ELSE IF ~p.RequireExplicitExec THEN "exec"
    ELSE "unknown"

\* The spelling of a first token that is a program name.
Word(verb) ==
    CASE verb = "ok" -> ProgOk
      [] verb = "ko" -> ProgKo
      [] verb = "no" -> ProgMissing
      [] OTHER       -> <<>>

\* append([]string{"exec"}, args...): the line cmdExec hands to cmdExecBuiltin
\* when the first token is in neither table; `from` keeps the line as written.
Implicit(l) ==
    [neg |-> l.neg, verb |-> "exec", args |-> <<Word(l.verb)>> \o l.args,
     from |-> l]

IsImplicit(l) == "from" \in DOMAIN l

\* The line as the script has it.
Raw(l) == IF IsImplicit(l) THEN l.from ELSE l

\* The condition of the line is an error: parseLine calls Fatalf.
CondFatal(l) == HasCond(l) /\ condition(l.cond).err

\* parseLine gets past the condition of the line, if it has one: ok is true,
\* and the Fatalf for an error, if there was one, returned.
CondPasses(l) ==
    HasCond(l) => (condition(l.cond).ok /\ (CondFatal(l) => FatalReturns))

\* parseLine and cmdExec up to the call of a handler with line l, the first
\* token of the line having resolved to `kind`.
BeginAs(l, kind) ==
    /\ pc = "run"
    /\ lineno < MaxLines
    /\ CondPasses(Raw(l))
    /\ Resolve(Raw(l).verb, params) = kind
    /\ lineno' = lineno + 1
    /\ line' = l
    /\ parsed' = [kind |-> kind, raw |-> Raw(l)]
    /\ UNCHANGED suiteVars

\* The call of a built-in handler: by its name, or cmdExecBuiltin by fallback.
Begin(l) == BeginAs(l, IF IsImplicit(l) THEN "exec" ELSE "builtin")

waitLocals == <<bgcmds, stdouts, stderrs>>
envVars    == <<env, envMap, heap>>
outVars    == <<stdout, stderr>>
jobVars    == <<background, jobs>>

(* ---------------------------- file commands --------------------------- *)

\* A mkdir that creates nothing when the line is negated.
cmdMkdirUnlessNegated(l) ==
    /\ Begin(l)
    /\ l.verb = "mkdir"
    /\ dirs' = IF l.neg THEN dirs ELSE dirs \cup {l.args[i] : i \in 1..Len(l.args)}
    /\ Flags(FALSE, stopped)
    /\ UNCHANGED <<host, flakyCount, project, httpState, cd, envVars, outVars, jobVars, waitLocals>>

\* ts.mkabs for a relative name: always below the work directory.
mkabs(file) == JoinPath(WorkDir, file)

\* os.Stat(path) finds a directory.
IsDir(path) ==
    \/ path = WorkDir
    \/ path = JoinPath(WorkDir, <<"t">>)
    \/ \E d \in dirs : path = mkabs(d)

\* os.Stat / os.ReadFile find a regular file.
IsFile(path) == path = mkabs(DataFile)

cmdCD(l) ==
    /\ Begin(l)
    /\ l.verb = "cd"
    /\ LET dir == JoinPath(cd, l.args[1])
       IN  IF IsDir(dir)
           THEN cd' = dir /\ Flags(FALSE, stopped)
           ELSE /\ cd' = cd
                /\ IF FatalReturns THEN Panic ELSE Goexit
    /\ UNCHANGED <<host, flakyCount, project, httpState, envVars, outVars, jobVars, dirs, waitLocals>>

cmdExists(l) ==
    /\ Begin(l)
    /\ l.verb = "exists"
    /\ LET file   == mkabs(l.args[1])
           found  == IsDir(file) \/ IsFile(file)
           exists == IF l.neg THEN ~found ELSE found
       IN  IF exists THEN Flags(FALSE, stopped)
           ELSE IF FatalReturns THEN Flags(TRUE, stopped) ELSE Goexit
    /\ UNCHANGED <<host, flakyCount, project, httpState, cd, envVars, outVars, jobVars, dirs, waitLocals>>

cmdGrep(l) ==
    /\ Begin(l)
    /\ l.verb = "grep"
    /\ LET filename == mkabs(l.args[2])
           readErr  == ~IsFile(filename)
           content  == IF readErr THEN <<>> ELSE DataContent
           match    == Contains(content, l.args[1])
           fatal    == readErr \/ (match = l.neg)
       IN  IF ~fatal THEN Flags(FALSE, stopped)
           ELSE IF FatalReturns THEN Flags(TRUE, stopped) ELSE Goexit
    /\ UNCHANGED <<host, flakyCount, project, httpState, cd, envVars, outVars, jobVars, dirs, waitLocals>>

cmdMkdir(l) ==
    /\ Begin(l)
    /\ l.verb = "mkdir"
    /\ dirs' = dirs \cup {l.args[i] : i \in 1..Len(l.args)}
    /\ Flags(FALSE, stopped)
    /\ UNCHANGED <<host, flakyCount, project, httpState, cd, envVars, outVars, jobVars, waitLocals>>

cmdRm(l) ==
    /\ Begin(l)
    /\ l.verb = "rm"
    /\ dirs' = dirs \ {l.args[i] : i \in 1..Len(l.args)}
    /\ Flags(FALSE, stopped)
    /\ UNCHANGED <<host, flakyCount, project, httpState, cd, envVars, outVars, jobVars, waitLocals>>

cmdStdout(l) ==
    /\ Begin(l)
    /\ l.verb = "stdout"
    /\ LET match == Contains(stdout, l.args[1])
       IN  IF match # l.neg THEN Flags(FALSE, stopped)
           ELSE IF FatalReturns THEN Flags(TRUE, stopped) ELSE Goexit
    /\ UNCHANGED <<host, flakyCount, project, httpState, cd, envVars, outVars, jobVars, dirs, waitLocals>>

cmdStderr(l) ==
    /\ Begin(l)
    /\ l.verb = "stderr"
    /\ LET match == Contains(stderr, l.args[1])
       IN  IF match # l.neg THEN Flags(FALSE, stopped)
           ELSE IF FatalReturns THEN Flags(TRUE, stopped) ELSE Goexit
    /\ UNCHANGED <<host, flakyCount, project, httpState, cd, envVars, outVars, jobVars, dirs, waitLocals>>

\* A stop that does not raise the stopped flag.
cmdStopKeepsRunning(l) ==
    /\ Begin(l)
    /\ l.verb = "stop"
    /\ Flags(FALSE, stopped)
    /\ UNCHANGED <<host, flakyCount, project, httpState, cd, envVars, outVars, jobVars, dirs, waitLocals>>

cmdStop(l) ==
    /\ Begin(l)
    /\ l.verb = "stop"
    /\ Flags(FALSE, TRUE)
    /\ UNCHANGED <<host, flakyCount, project, httpState, cd, envVars, outVars, jobVars, dirs, waitLocals>>

\* t.Skip: SkipNow ends the script on the testing host; the standalone host's
\* Skip returns and the run goes on.
cmdSkip(l) ==
    /\ Begin(l)
    /\ l.verb = "skip"
    /\ IF host = "testing"
       THEN /\ skipped' = TRUE
            /\ pc' = "done"
            /\ lineFatal' = FALSE
            /\ UNCHANGED <<failed, stopped>>
       ELSE Flags(FALSE, stopped)
    /\ UNCHANGED <<host, flakyCount, project, httpState, cd, envVars, outVars, jobVars, dirs, waitLocals>>

\* The custom command the repository's tests register: it logs its arguments.
cmdCustom(l) ==
    /\ BeginAs(l, "user")
    /\ Flags(FALSE, stopped)
    /\ UNCHANGED <<host, flakyCount, project, httpState, cd, envVars, outVars, jobVars, dirs, waitLocals>>

(* ------------------------------- env ---------------------------------- *)

\* The first entry of ts.env whose key is k (0 when none): the loop of cmdEnv.
\* A search that finds no entry, whatever the key.
EnvIndexFindsNone(h, hdr, k) == 0

EnvIndex(h, hdr, k) ==
    LET hit(i) == Cut(h[hdr.arr][i], "=").found /\ Cut(h[hdr.arr][i], "=").before = k
    IN  IF \E i \in 1..hdr.len : hit(i)
        THEN CHOOSE i \in 1..hdr.len : hit(i) /\ \A j \in 1..(i-1) : ~hit(j)
        ELSE 0

\* ts.envMap[k] = v.
MapSet(m, k, v) == [x \in DOMAIN m \cup {k} |-> IF x = k THEN v ELSE m[x]]

cmdEnv(l) ==
    /\ Begin(l)
    /\ l.verb = "env"
    /\ Len(l.args) = 1
    /\ LET kv == Cut(l.args[1], "=")
           entry == kv.before \o <<"=">> \o kv.after
           i == EnvIndex(heap, env, kv.before)
           grown == AppendSlice(heap, env, entry)
       IN  IF kv.found
           THEN /\ IF i # 0
                   THEN /\ heap' = [heap EXCEPT ![env.arr][i] = entry]
                        /\ env' = env
                   ELSE /\ heap' = grown.heap
                        /\ env' = grown.hdr
                /\ envMap' = MapSet(envMap, kv.before, kv.after)
                /\ Flags(FALSE, stopped)
           ELSE /\ UNCHANGED envVars
                /\ Flags(TRUE, stopped)
    /\ UNCHANGED <<host, flakyCount, project, httpState, cd, outVars, jobVars, dirs, waitLocals>>

\* Env.Setenv on the slice e.Values: the first entry of the key is replaced,
\* or the entry is appended; [heap, hdr].
Setenv(h, hdr, key, value) ==
    LET entry == key \o <<"=">> \o value
        i == EnvIndex(h, hdr, key)
    IN  IF i # 0
        THEN [heap |-> [h EXCEPT ![hdr.arr][i] = entry], hdr |-> hdr]
        ELSE AppendSlice(h, hdr, entry)

\* The Setenv calls of a Setup hook, in order.
RECURSIVE SetenvAll(_, _, _)
SetenvAll(h, hdr, calls) ==
    IF calls = <<>> THEN [heap |-> h, hdr |-> hdr]
    ELSE SetenvAll(Setenv(h, hdr, Head(calls).key, Head(calls).value).heap,
                   Setenv(h, hdr, Head(calls).key, Head(calls).value).hdr,
                   Tail(calls))

\* What the Setup hooks of the scripts do: Setenv calls, and an error or nil.
SetupCalls ==
    LET K1 == [key |-> <<"K">>, value |-> <<"1">>]
        K2 == [key |-> <<"K">>, value |-> <<"2">>]
        S  == [key |-> <<"S">>, value |-> <<"u">>]
        P  == [key |-> <<"P", "A", "T", "H">>, value |-> HelperDir]
    IN  {<<>>, <<K1>>, <<S, K1>>, <<K1, K2>>, <<P>>, <<S, P, K2>>}

\* run() between setup() and the first line, Params.Setup not nil: the hook
\* works on a copy of ts.env, which then becomes ts.env; the map is rebuilt.
\* An error of the hook is fatal; where Fatalf returns, the run goes on.
setupHook(calls, err) ==
    /\ pc = "run"
    /\ lineno = 0
    /\ parsed = NoParse
    /\ parsed' = [kind |-> "setup", raw |-> Ln(FALSE, "", calls)]
    /\ IF err /\ ~FatalReturns
       THEN /\ Goexit
            /\ UNCHANGED envVars
       ELSE LET copy == Append(heap, SliceVal(heap, env))
                done == SetenvAll(copy, [arr |-> Len(copy), len |-> env.len], calls)
            IN  /\ heap' = done.heap
                /\ env' = done.hdr
                /\ envMap' = EnvMapOf(SliceVal(done.heap, done.hdr))
                /\ lineFatal' = err
                /\ failed' = (failed \/ err)
                /\ UNCHANGED <<pc, stopped, skipped>>
    /\ UNCHANGED <<host, flakyCount, project, httpState, lineno, line, cd, outVars, jobVars, dirs, waitLocals,
                   suiteVars>>

(* ------------------------------- exec --------------------------------- *)

\* The test of line 863: more than one word after exec, the last a specifier.
IsBackground(l) ==
    /\ Len(l.args) + 1 > 2
    /\ backgroundSpecifier(l.args[Len(l.args)])

\* findBackground: the index of the first registry entry of that name, 0 for nil.
findBackground(bg, name) ==
    IF \E i \in 1..Len(bg) : bg[i].name = name
    THEN CHOOSE i \in 1..Len(bg) :
            bg[i].name = name /\ \A j \in 1..(i-1) : bg[j].name # name
    ELSE 0

\* The name of the job a background line spawns (lines 865-868).
bgName(l, bg) ==
    LET given == TrimSuffix(TrimPrefix(l.args[Len(l.args)], "&"), "&")
    IN  IF given = <<>> THEN <<"b", "g">> \o Itoa(Len(bg)) ELSE given

\* buildExecCmd finds the program: a name with a separator is taken as it is.
Resolves(name) == ContainsRune(name, "/") \/ LookPath(name)

\* buildExecCmd's cmd.Env = append(ts.env, "PWD="+ts.cd): [heap, hdr].
CmdEnvOf(h, hdr, dir) == AppendSlice(h, hdr, <<"P", "W", "D", "=">> \o dir)

\* A verdict that does not look at the negation flag.
ExecVerdictIgnoresNeg(exitErr, neg) == exitErr

\* The verdict of lines 910-921 on a command that ran: fatal or not.
ExecVerdict(exitErr, neg) == IF exitErr THEN ~neg ELSE neg

\* A verdict on a start error that the negation flag inverts.
StartErrorNegated(neg) == ~neg

\* The verdict of lines 905-909 on an error that is no *exec.ExitError (the
\* program was not found or could not be started): fatal whatever neg is.
StartErrorVerdict(neg) == TRUE

\* Foreground exec: ts.exec and the verdict.
cmdExecFg(l) ==
    /\ Begin(l)
    /\ l.verb = "exec"
    /\ Len(l.args) >= 1
    /\ ~IsBackground(l)
    /\ LET prog == l.args[1]
       IN  IF ~Resolves(prog)
           THEN /\ stdout' = <<>>
                /\ stderr' = <<>>
                /\ heap' = heap
                /\ Flags(StartErrorVerdict(l.neg), stopped)
           ELSE /\ heap' = CmdEnvOf(heap, env, cd).heap
                /\ IF ~CanStart(prog)
                   THEN /\ stdout' = <<>>
                        /\ stderr' = <<>>
                        /\ Flags(StartErrorVerdict(l.neg), stopped)
                   ELSE /\ stdout' = ProgStdout(prog)
                        /\ stderr' = ProgStderr(prog)
                        /\ Flags(ExecVerdict(ExitCode(prog) # 0, l.neg), stopped)
    /\ UNCHANGED <<host, flakyCount, project, httpState, cd, env, envMap, jobVars, dirs, waitLocals>>

\* The job record: the *exec.Cmd, the local bg the process writes into, and the
\* state of the goroutine of lines 885-888.
NewJob(prog, hdr, dir, snapshot) ==
    [prog |-> prog, env |-> hdr, dir |-> dir, st |-> "pending", sig |-> FALSE,
     startEnv |-> <<>>, startDir |-> <<>>, spawnEnv |-> snapshot]

\* What bg.stdout (or bg.stderr) of a job holds at this moment, `all` being
\* what its program writes in total. The process writes as it exits (bgExit).
Written(job, all) == IF job.st = "exited" THEN all ELSE <<>>

\* Background exec up to the go statement of line 885.
cmdExecBg(l) ==
    /\ Begin(l)
    /\ l.verb = "exec"
    /\ IsBackground(l)
    /\ LET prog == l.args[1]
           dup  == findBackground(background, bgName(l, background)) # 0
           built == CmdEnvOf(heap, env, cd)
       IN  IF dup /\ ~FatalReturns
           THEN /\ Goexit
                /\ UNCHANGED <<heap, outVars, jobs>>
           ELSE IF ~Resolves(prog)
           THEN /\ stdout' = <<>>
                /\ stderr' = <<>>
                /\ Flags(dup \/ StartErrorVerdict(l.neg), stopped)
                /\ UNCHANGED <<heap, jobs>>
           ELSE /\ Len(jobs) < MaxJobs
                /\ heap' = built.heap
                /\ jobs' = Append(jobs, NewJob(prog, built.hdr, cd,
                                               SliceVal(built.heap, built.hdr)))
                /\ lineFatal' = dup
                /\ failed' = (failed \/ dup)
                /\ pc' = "spawn"
                /\ UNCHANGED <<outVars, stopped, skipped>>
    /\ UNCHANGED <<host, flakyCount, project, httpState, cd, env, envMap, background, dirs, waitLocals>>

\* A registration that leaves the last output as the line before left it.
cmdExecBgRegisterKeepsOutput ==
    /\ pc = "spawn"
    /\ LET j == Len(jobs)
           fatal == ExecVerdict(FALSE, line.neg)
       IN  /\ background' = Append(background,
                 [name |-> bgName(line, background), job |-> j, neg |-> line.neg,
                  stdout |-> Written(jobs[j], ProgStdout(jobs[j].prog)),
                  stderr |-> Written(jobs[j], ProgStderr(jobs[j].prog))])
           /\ lineFatal' = (lineFatal \/ fatal)
           /\ failed' = (failed \/ fatal)
           /\ pc' = IF failed \/ fatal \/ stopped THEN "done" ELSE "run"
    /\ UNCHANGED <<host, flakyCount, project, httpState, lineno, line, skipped, stopped, cd, envVars, jobs, dirs,
                   waitLocals, suiteVars, parsed, outVars>>

\* Lines 889-921 of a background exec: the registry gets a copy of bg (of its
\* builders too, as they are while the process may be writing them), the last
\* output is cleared and the verdict is that of a command that succeeded.
registerFor(l) ==
    /\ pc = "spawn"
    /\ LET j == Len(jobs)
           fatal == ExecVerdict(FALSE, l.neg)
       IN  /\ background' = Append(background,
                 [name |-> bgName(l, background), job |-> j, neg |-> l.neg,
                  stdout |-> Written(jobs[j], ProgStdout(jobs[j].prog)),
                  stderr |-> Written(jobs[j], ProgStderr(jobs[j].prog))])
           /\ stdout' = <<>>
           /\ stderr' = <<>>
           /\ lineFatal' = (lineFatal \/ fatal)
           /\ failed' = (failed \/ fatal)
           /\ pc' = IF failed \/ fatal \/ stopped THEN "done" ELSE "run"
    /\ UNCHANGED <<host, flakyCount, project, httpState, lineno, line, skipped, stopped, cd, envVars, jobs, dirs,
                   waitLocals, suiteVars, parsed>>

\* The rest of the handler of the background exec in `line`.
cmdExecBgRegister == registerFor(line)

(* ----------------------- the goroutine of a job ----------------------- *)

mainVars == <<host, flakyCount, project, httpState, pc, lineno, line, lineFatal, failed, skipped, stopped, cd,
              envVars, outVars, background, dirs, waitLocals, suiteVars, parsed>>

\* waitOrStop: cmd.Start reads cmd.Env and cmd.Dir as they are now.
bgStart(j) ==
    /\ j \in 1..Len(jobs)
    /\ jobs[j].st = "pending"
    /\ jobs' = [jobs EXCEPT ![j] =
                  IF CanStart(jobs[j].prog)
                  THEN [@ EXCEPT !.st = "running",
                                 !.startEnv = SliceVal(heap, jobs[j].env),
                                 !.startDir = jobs[j].dir]
                  ELSE [@ EXCEPT !.st = "startfailed"]]
    /\ UNCHANGED mainVars

\* The process exits, its output written to bg.stdout and bg.stderr (the
\* builders cmd.Stdout and cmd.Stderr point to): cmd.Wait returns and
\* cmd.ProcessState is set.
bgExit(j) ==
    /\ j \in 1..Len(jobs)
    /\ jobs[j].st = "running"
    /\ jobs' = [jobs EXCEPT ![j] = [@ EXCEPT !.st = "exited"]]
    /\ UNCHANGED mainVars

\* waitOrStop returned: close(wait).
bgSignal(j) ==
    /\ j \in 1..Len(jobs)
    /\ jobs[j].st \in {"exited", "startfailed"}
    /\ ~jobs[j].sig
    /\ jobs' = [jobs EXCEPT ![j] = [@ EXCEPT !.sig = TRUE]]
    /\ UNCHANGED mainVars

(* ------------------------------- wait --------------------------------- *)

\* removeBackground: the first entry of that name is deleted, the rest kept in order.
removeBackground(bg, name) ==
    LET i == findBackground(bg, name)
    IN  IF i = 0 THEN bg ELSE SubSeq(bg, 1, i-1) \o SubSeq(bg, i+1, Len(bg))

\* The loop of lines 1088-1090.
RECURSIVE removeAllNamed(_, _)
removeAllNamed(bg, names) ==
    IF names = <<>> THEN bg
    ELSE removeAllNamed(removeBackground(bg, Head(names)), Tail(names))

\* An end of wait that updates the last stdout and leaves the last stderr.
waitFinishKeepsStderr(outs, errs, fatal) ==
    /\ stdout' = Join(outs)
    /\ stderr' = stderr
    /\ background' = IF line'.args = <<>> THEN <<>>
                     ELSE removeAllNamed(background, line'.args)
    /\ bgcmds' = <<>>
    /\ stdouts' = <<>>
    /\ stderrs' = <<>>
    /\ Flags(fatal, stopped)

\* Lines 1079-1091: the collected output becomes the last output and the
\* joined entries leave the registry.
waitFinish(outs, errs, fatal) ==
    /\ stdout' = Join(outs)
    /\ stderr' = Join(errs)
    /\ background' = IF line'.args = <<>> THEN <<>>
                     ELSE removeAllNamed(background, line'.args)
    /\ bgcmds' = <<>>
    /\ stdouts' = <<>>
    /\ stderrs' = <<>>
    /\ Flags(fatal, stopped)

\* Lines 1033-1049: the jobs to join, as pointers into the registry.
waitList(l, bg) ==
    IF l.args = <<>> THEN [i \in 1..Len(bg) |-> i]
    ELSE [i \in 1..Len(l.args) |-> findBackground(bg, l.args[i])]

cmdWait(l) ==
    /\ Begin(l)
    /\ l.verb = "wait"
    /\ LET cmds == waitList(l, background)
           unknown == \E i \in 1..Len(cmds) : cmds[i] = 0
       IN  IF unknown /\ ~FatalReturns
           THEN /\ Goexit
                /\ UNCHANGED <<outVars, background, waitLocals>>
           ELSE IF cmds = <<>>
           THEN waitFinish(<<>>, <<>>, unknown)
           ELSE /\ bgcmds' = cmds
                /\ stdouts' = <<>>
                /\ stderrs' = <<>>
                /\ lineFatal' = unknown
                /\ failed' = (failed \/ unknown)
                /\ pc' = "wait"
                /\ UNCHANGED <<outVars, background, stopped, skipped>>
    /\ UNCHANGED <<host, flakyCount, project, httpState, cd, envVars, jobs, dirs>>

\* bg.cmd.ProcessState is set and says the process did not succeed.
exitError(job) == job.st = "exited" /\ ExitCode(job.prog) # 0

\* The check of line 1070 on a joined job: fatal or not.
waitVerdict(job, neg) == (~exitError(job)) # (~neg)

\* One turn of the loop of lines 1052-1077: blocked until the job's channel
\* is closed, then its output is collected and its exit judged.
cmdWaitJoin ==
    /\ pc = "wait"
    /\ bgcmds # <<>>
    /\ UNCHANGED <<lineno, line, suiteVars, parsed>>
    /\ LET i == Head(bgcmds)
       IN  IF i = 0
           THEN /\ Panic
                /\ bgcmds' = <<>>
                /\ stdouts' = <<>>
                /\ stderrs' = <<>>
                /\ UNCHANGED <<outVars, background>>
           ELSE LET bg == background[i]
                    job == jobs[bg.job]
                    outs == IF Len(bg.stdout) > 0 THEN Append(stdouts, bg.stdout)
                            ELSE stdouts
                    errs == IF Len(bg.stderr) > 0 THEN Append(stderrs, bg.stderr)
                            ELSE stderrs
                    fatal == waitVerdict(job, bg.neg)
                IN  /\ job.sig
                    /\ IF fatal /\ ~FatalReturns
                       THEN /\ Goexit
                            /\ bgcmds' = <<>>
                            /\ stdouts' = <<>>
                            /\ stderrs' = <<>>
                            /\ UNCHANGED <<outVars, background>>
                       ELSE IF Tail(bgcmds) = <<>>
                       THEN waitFinish(outs, errs, lineFatal \/ fatal)
                       ELSE /\ bgcmds' = Tail(bgcmds)
                            /\ stdouts' = outs
                            /\ stderrs' = errs
                            /\ lineFatal' = (lineFatal \/ fatal)
                            /\ failed' = (failed \/ fatal)
                            /\ pc' = "wait"
                            /\ UNCHANGED <<outVars, background, stopped, skipped>>
    /\ UNCHANGED <<host, flakyCount, project, httpState, cd, envVars, jobs, dirs>>

(* ------------------------------ the run ------------------------------- *)

\* The script text is exhausted: the loop of run() ends.
endOfScript ==
    /\ pc = "run"
    /\ pc' = "done"
    /\ UNCHANGED <<host, flakyCount, project, httpState, lineno, line, lineFatal, failed, skipped,
                   stopped, cd,
                   envVars, outVars, jobVars, dirs, waitLocals, suiteVars, parsed>>

\* The fallback of cmdExec: the line is run as `exec <line>`, same negation.
cmdImplicitExec(l) ==
    /\ Resolve(l.verb, params) = "exec"
    /\ cmdExecFg(Implicit(l)) \/ cmdExecBg(Implicit(l))

\* The last statement of cmdExec: the unknown-command error.
unknownCommand(l) ==
    /\ BeginAs(l, "unknown")
    /\ IF FatalReturns THEN Flags(TRUE, stopped) ELSE Goexit
    /\ UNCHANGED <<host, flakyCount, project, httpState, cd, envVars, outVars, jobVars, dirs, waitLocals>>

\* parseLine on a line whose condition is false: it returns at once.
condFalse(l) ==
    /\ pc = "run"
    /\ lineno < MaxLines
    /\ HasCond(l)
    /\ ~condition(l.cond).ok
    /\ ~condition(l.cond).err
    /\ lineno' = lineno + 1
    /\ parsed' = [kind |-> "skipped", raw |-> l]
    /\ UNCHANGED <<host, flakyCount, project, httpState, pc, line, lineFatal, failed, skipped, stopped, cd,
                   envVars, outVars, jobVars, dirs, waitLocals, suiteVars>>

\* parseLine on a line whose condition is an error: Fatalf; on the standalone
\* host it returns and the line, when its condition is not ok, is not run.
condError(l) ==
    /\ pc = "run"
    /\ lineno < MaxLines
    /\ HasCond(l)
    /\ condition(l.cond).err
    /\ ~(condition(l.cond).ok /\ FatalReturns)
    /\ lineno' = lineno + 1
    /\ parsed' = [kind |-> "conderror", raw |-> l]
    /\ IF FatalReturns THEN Flags(TRUE, stopped) ELSE Goexit
    /\ UNCHANGED <<host, flakyCount, project, httpState, line, cd, envVars, outVars, jobVars, dirs, waitLocals,
                   suiteVars>>

\* parseLine on a line that opens a condition and never closes it: Fatalf; on
\* the standalone host it returns and line[1:i] with i = -1 panics.
unterminatedCondition ==
    /\ pc = "run"
    /\ lineno < MaxLines
    /\ lineno' = lineno + 1
    /\ parsed' = [kind |-> "unterminated", raw |-> NoLine]
    /\ IF FatalReturns THEN Panic ELSE Goexit
    /\ UNCHANGED <<host, flakyCount, project, httpState, line, cd, envVars, outVars, jobVars, dirs, waitLocals,
                   suiteVars>>

(* --------------------------- lines of text --------------------------- *)

Space     == " "
Tab       == "\t"
Quote     == "\""
Backslash == "\\"

\* unicode.IsSpace for the characters of a line.
IsSpace(c) == c \in {Space, Tab}

\* strings.TrimSpace.
TrimSpace(s) ==
    LET ink == {i \in 1..Len(s) : ~IsSpace(s[i])}
    IN  IF ink = {} THEN <<>>
        ELSE SubSeq(s, CHOOSE i \in ink : \A j \in ink : i <= j,
                       CHOOSE i \in ink : \A j \in ink : i >= j)

\* The length of the longest prefix of s whose characters are all in set.
PrefixLen(s, set) ==
    IF \E i \in 1..Len(s) : s[i] \notin set
    THEN (CHOOSE i \in 1..Len(s) : s[i] \notin set /\ \A j \in 1..(i-1) : s[j] \in set) - 1
    ELSE Len(s)

\* The characters of the scripts that isAlphaNum of package os accepts.
ShellNameChars == {"c", "E", "K", "S", "_"}

\* os.Getenv of the process that runs the suite.
Getenv(name) == IF name = <<"P", "A", "T", "H">> THEN HostPath ELSE <<>>

\* The mapping expandEnvVars gives os.Expand: ts.envMap, then the process.
EnvLookup(name) == IF name \in DOMAIN envMap THEN envMap[name] ELSE Getenv(name)

\* os.Expand for $NAME: a "$" before a name is replaced with the name by the
\* value of the name; a "$" before another character, or at the end, stays.
RECURSIVE expandEnvVars(_)
expandEnvVars(s) ==
    IF s = <<>> THEN <<>>
    ELSE IF Head(s) = "$" /\ Len(s) > 1 /\ PrefixLen(Tail(s), ShellNameChars) > 0
    THEN EnvLookup(SubSeq(s, 2, 1 + PrefixLen(Tail(s), ShellNameChars)))
         \o expandEnvVars(SubSeq(s, 2 + PrefixLen(Tail(s), ShellNameChars), Len(s)))
    ELSE <<Head(s)>> \o expandEnvVars(Tail(s))

\* A Fields that takes only the space for a separator.
RECURSIVE FieldsSpaceOnly(_)
FieldsSpaceOnly(s) ==
    IF s = <<>> THEN <<>>
    ELSE IF Head(s) = Space THEN FieldsSpaceOnly(Tail(s))
    ELSE <<SubSeq(s, 1, PrefixLen(s, {Quote, Backslash, Tab, "!", "$"} \cup ShellNameChars))>>
         \o FieldsSpaceOnly(SubSeq(s, 1 + PrefixLen(s, {Quote, Backslash, Tab, "!", "$"} \cup ShellNameChars), Len(s)))

\* strings.Fields: the maximal runs of characters that are not white space.
RECURSIVE Fields(_)
Fields(s) ==
    IF s = <<>> THEN <<>>
    ELSE IF IsSpace(Head(s)) THEN Fields(Tail(s))
    ELSE <<SubSeq(s, 1, PrefixLen(s, {Quote, Backslash, "!", "$"} \cup ShellNameChars))>>
         \o Fields(SubSeq(s, 1 + PrefixLen(s, {Quote, Backslash, "!", "$"} \cup ShellNameChars), Len(s)))

\* ts.parse.
parse(text) == Fields(expandEnvVars(text))

\* The tokens parseLine gets from a line of text: none when the line is
\* blank or a comment, else those of ts.parse.
Tokens(text) ==
    LET line0 == TrimSpace(text)
    IN  IF line0 = <<>> THEN <<>>
        ELSE IF Head(line0) = "#" THEN <<>>
        ELSE parse(line0)

\* The name a token spells, for the one-letter names of the scripts.
NameOf(tok) == IF Len(tok) = 1 THEN tok[1] ELSE "?"

\* What parseLine makes of the tokens of a line of text: the negation, the
\* name of the command and its arguments; `word` keeps the first token and
\* `text` the line as written.
LineOf(text) ==
    LET toks == Tokens(text)
        neg  == toks[1] = <<"!">>
        args == IF neg THEN Tail(toks) ELSE toks
    IN  [neg |-> neg, verb |-> NameOf(args[1]), args |-> Tail(args),
         word |-> args[1], text |-> text]

\* parseLine returns before the negation is looked at: the line is blank or a
\* comment, or no token is left after expansion.
IsBlank(text) == Tokens(text) = <<>>

\* The line is a "!" and nothing else.
IsBangAlone(text) == Tokens(text) = <<<<"!">>>>

\* The line has a command for cmdExec.
HasCommand(text) == Tokens(text) \notin {<<>>, <<<<"!">>>>}

\* parseLine on a blank line: only the line counter moves.
blankLine(text) ==
    /\ pc = "run"
    /\ lineno < MaxLines
    /\ IsBlank(text)
    /\ lineno' = lineno + 1
    /\ parsed' = [kind |-> "blank", raw |-> [NoLine EXCEPT !.args = <<>>] @@ [text |-> text]]
    /\ UNCHANGED <<host, flakyCount, project, httpState, pc, line, lineFatal, failed, skipped, stopped, cd,
                   envVars, outVars, jobVars, dirs, waitLocals, suiteVars>>

\* parseLine on a line that is "!" alone: Fatalf; on the standalone host it
\* returns and cmdExec indexes the empty args.
bangAlone(text) ==
    /\ pc = "run"
    /\ lineno < MaxLines
    /\ IsBangAlone(text)
    /\ lineno' = lineno + 1
    /\ parsed' = [kind |-> "bang", raw |-> NoLine @@ [text |-> text]]
    /\ IF FatalReturns THEN Panic ELSE Goexit
    /\ UNCHANGED <<host, flakyCount, project, httpState, line, cd, envVars, outVars, jobVars, dirs, waitLocals,
                   suiteVars>>

\* parseLine on a line of text whose command is the caller's.
customLine(text) == HasCommand(text) /\ cmdCustom(LineOf(text))

\* parseLine on a line of text whose command is in no table.
unknownLine(text) == HasCommand(text) /\ unknownCommand(LineOf(text))

\* The handlers of the two tables, each enabled for the lines that resolve to it.
tableCommand(l) ==
    \/ cmdCD(l)
    \/ cmdEnv(l)
    \/ cmdExecFg(l)
    \/ cmdExecBg(l)
    \/ cmdExists(l)
    \/ cmdGrep(l)
    \/ cmdMkdir(l)
    \/ cmdRm(l)
    \/ cmdSkip(l)
    \/ cmdStderr(l)
    \/ cmdStdout(l)
    \/ cmdStop(l)
    \/ cmdWait(l)
    \/ cmdCustom(l)

\* cmdExec: the first token is looked up in the built-in table, then in the
\* caller's table; what is in neither is run by exec or is an error.
cmdExec(l) ==
    \/ tableCommand(l)
    \/ cmdImplicitExec(l)
    \/ unknownCommand(l)

\* A line of a script whose first tokens are all names of the two tables.
parseLine == \E l \in Lines : tableCommand(l)

\* The goroutine a background exec starts (lines 885-888).
background_task == \E j \in 1..MaxJobs : bgStart(j) \/ bgExit(j) \/ bgSignal(j)

\* A run of one script with every command.
Next ==
    \/ parseLine
    \/ cmdExecBgRegister
    \/ cmdWaitJoin
    \/ endOfScript
    \/ background_task

Spec == Init /\ [][Next]_vars

\* A run of a script of exec and wait lines only.
ExecLines == {l \in Lines : l.verb \in {"exec", "wait"}}

NextExec ==
    \/ \E l \in ExecLines : cmdExecFg(l) \/ cmdExecBg(l) \/ cmdWait(l)
    \/ cmdExecBgRegister
    \/ cmdWaitJoin
    \/ endOfScript
    \/ background_task

SpecExec == Init /\ [][NextExec]_vars

\* Scripts over every handler of the two tables, with two programs, one
\* background job name and the wait for every job.
CmdLines ==
    {l \in Lines :
        /\ l.verb = "exec" => l.args \in {<<ProgOk>>, <<ProgKo>>,
                                           <<ProgOk, <<"&">> \o NameA>>,
                                           <<ProgKo, <<"&">> \o NameA>>}
        /\ l.verb = "wait" => l.args = <<>>
        /\ l.verb = "env" => l.args = <<<<"K", "=", "1">>>>
        /\ l.verb = "grep" => l.args[2] = DataFile}

NextCmd ==
    \/ \E l \in CmdLines : tableCommand(l)
    \/ cmdExecBgRegister
    \/ cmdWaitJoin
    \/ endOfScript
    \/ background_task

SpecCmd == Init /\ [][NextCmd]_vars

(* ----------------------------- the suite ------------------------------ *)

\* What the suite reports for the script that ended: the standalone loop
\* prints FAIL or PASS after t.Failed() of the one runner of the whole suite;
\* a subtest of testing.T has its own failed and skipped flags.
Verdict ==
    IF failed THEN "FAIL"
    ELSE IF host = "testing" /\ skipped THEN "SKIP"
    ELSE "PASS"

\* The loop of runFilesStandalone returns on `t.Failed() && !ContinueOnError`;
\* the loop of runFiles has no such test.
LoopReturns == host = "standalone" /\ failed /\ ~params.ContinueOnError

\* The next test case of the loop: a new TestScript, then setup(). t.Run gives
\* a subtest a new testing.T; the standalone runner is the same for all.
nextScript ==
    /\ pc = "done"
    /\ script < MaxScripts
    /\ ~LoopReturns
    /\ results' = Append(results, Verdict)
    /\ script' = script + 1
    /\ failed' = IF host = "testing" THEN FALSE ELSE failed
    /\ pc' = "run"
    /\ lineno' = 0
    /\ line' = NoLine
    /\ parsed' = NoParse
    /\ lineFatal' = FALSE
    /\ skipped' = FALSE
    /\ stopped' = FALSE
    /\ cd' = WorkDir
    /\ heap' = Append(heap, [i \in 1..EnvInitCap |->
                                IF i <= EnvInitLen THEN InitEnv[i] ELSE NoEntry])
    /\ env' = [arr |-> Len(heap) + 1, len |-> EnvInitLen]
    /\ envMap' = EnvMapOf(InitEnv)
    /\ stdout' = <<>>
    /\ stderr' = <<>>
    /\ background' = <<>>
    /\ dirs' = {}
    /\ httpState' = NoHTTP
    /\ UNCHANGED <<host, flakyCount, project, params, jobs, waitLocals>>

\* The loop over the test cases ends: no file is left, or the standalone loop
\* returns after a failure.
suiteEnds ==
    /\ pc = "done"
    /\ script = MaxScripts \/ LoopReturns
    /\ results' = Append(results, Verdict)
    /\ pc' = "end"
    /\ UNCHANGED <<host, flakyCount, project, httpState, lineno, line, lineFatal, failed, skipped, stopped, cd,
                   envVars, outVars, jobVars, dirs, waitLocals, params, script,
                   parsed>>

SuiteParams ==
    {[RequireExplicitExec |-> FALSE, ContinueOnError |-> c,
      Commands |-> {"custom"}, Condition |-> NoCondition, Short |-> FALSE] :
        c \in BOOLEAN}

\* Lines that pass, fail, stop or skip.
SuiteLines ==
    {Ln(FALSE, v, <<SubDir>>) : v \in {"mkdir", "exists", "cd"}}
    \cup {Ln(FALSE, v, <<>>) : v \in {"stop", "skip"}}

InitSuite == params \in SuiteParams /\ FirstScript

NextSuite ==
    \/ \E l \in SuiteLines :
          \/ cmdMkdir(l)
          \/ cmdExists(l)
          \/ cmdCD(l)
          \/ cmdStop(l)
          \/ cmdSkip(l)
    \/ endOfScript
    \/ nextScript
    \/ suiteEnds

SpecSuite == InitSuite /\ [][NextSuite]_vars

\* Scripts with lines behind condition tags: true, false, negated, unknown.
CondTags ==
    {<<"linux">>, <<"windows">>, <<"!", "linux">>, <<"!", "windows">>,
     <<"!", "!", "linux">>, <<"bogus">>, << >>}

CondLn(c, l) == [neg |-> l.neg, verb |-> l.verb, args |-> l.args, cond |-> c]

CondLines ==
    LET base == {Ln(n, v, <<SubDir>>) : n \in BOOLEAN, v \in {"mkdir", "rm", "cd"}}
                \cup {Ln(n, "exec", <<ProgOk>>) : n \in BOOLEAN}
    IN  base \cup {CondLn(c, l) : c \in CondTags, l \in base}

NextCond ==
    \/ \E l \in CondLines :
          \/ cmdMkdir(l)
          \/ cmdRm(l)
          \/ cmdCD(l)
          \/ cmdExecFg(l)
          \/ condFalse(l)
          \/ condError(l)
    \/ unterminatedCondition
    \/ endOfScript

SpecCond == Init /\ [][NextCond]_vars

\* The lines of text of the scripts: the command c, a blank and every string
\* of at most MaxLen characters, and lines picked for what they hold.
Alphabet == {"c", Space, Tab, Quote}

Bodies == UNION {[1..n -> Alphabet] : n \in 0..MaxLen}

Examples ==
    {<<>>, <<Tab, Space>>, <<"#", "c">>, <<"$", "E">>, <<"!">>,
     <<"!", Space, "c", Space, "c">>,
     <<"K", Space, "c">>,
     <<"c", Space, "$", "E">>,
     <<"c", Tab, "$", "K">>,
     <<"c", Space, Quote, "c", Space, "c", Quote>>,
     <<"c", Space, "c", Space, Quote, "c", Tab, Space, "c", Quote, Space, "c">>,
     <<"c", Space, Quote, "c", Backslash, Quote, "c", Quote>>,
     <<"c", Space, Quote, "c", Backslash, Backslash, "c", Quote>>,
     <<"c", Space, Quote, "c", Space, "c">>}

Texts == {<<"c", Space>> \o b : b \in Bodies} \cup Examples

\* The caller registers the command c; a name of no table is an error.
TextParams ==
    [RequireExplicitExec |-> TRUE, ContinueOnError |-> FALSE,
     Commands |-> {"c"}, Condition |-> NoCondition, Short |-> FALSE]

InitText == params = TextParams /\ FirstScript

NextText ==
    \/ \E text \in Texts :
          \/ blankLine(text)
          \/ bangAlone(text)
          \/ customLine(text)
          \/ unknownLine(text)
    \/ \E v \in {<<"c", Space, "c">>} :
          setupHook(<<[key |-> <<"K">>, value |-> v]>>, FALSE)
    \/ endOfScript

SpecText == InitText /\ [][NextText]_vars

\* Scripts of env and exec lines, run after a Setup hook or without one.
EnvLines ==
    {Ln(FALSE, "env", <<e>>) :
        e \in {<<"K", "=", "1">>, <<"K", "=", "2">>,
               <<"P", "A", "T", "H", "=">> \o HelperDir}}
    \cup {Ln(FALSE, "exec", <<p>>) : p \in {ProgOk, ProgHelper}}

NextEnv ==
    \/ \E c \in SetupCalls, e \in BOOLEAN : setupHook(c, e)
    \/ \E l \in EnvLines :
          \/ cmdEnv(l)
          \/ cmdExecFg(l)
    \/ endOfScript

SpecEnv == Init /\ [][NextEnv]_vars

\* Scripts with tags of the built-in names and of a name only the caller
\* knows, run with and without a Params.Condition and with -test.short or not.
Tags ==
    {<<t>> : t \in {"short", "linux", "windows", "net"}}
    \cup {<<"!", t>> : t \in {"short", "linux", "windows", "net"}}

\* A caller's predicate for the tag "net": `up` is what it finds for the
\* network; a strict one returns an error for every other tag.
NetCondition(up, strict) ==
    [nil |-> FALSE,
     sat |-> IF up THEN {<<"net">>} ELSE {},
     known |-> IF strict THEN {<<"net">>} ELSE Tags]

TagParams ==
    {[RequireExplicitExec |-> FALSE, ContinueOnError |-> FALSE,
      Commands |-> {"custom"}, Condition |-> c, Short |-> s] :
        c \in {NoCondition} \cup {NetCondition(u, x) : u, x \in BOOLEAN},
        s \in BOOLEAN}

TagLines ==
    LET base == {Ln(FALSE, v, <<SubDir>>) : v \in {"mkdir", "rm"}}
    IN  base \cup {CondLn(c, l) : c \in Tags, l \in base}

InitTag == params \in TagParams /\ FirstScript

NextTag ==
    \/ \E l \in TagLines :
          \/ cmdMkdir(l)
          \/ cmdRm(l)
          \/ condFalse(l)
          \/ condError(l)
    \/ endOfScript

SpecTag == InitTag /\ [][NextTag]_vars

\* Scripts whose first tokens are built-in names, names of the caller's table
\* (one of which may also be a built-in name) and names of neither table, run
\* with RequireExplicitExec set or not.
DispatchParams ==
    {[RequireExplicitExec |-> r, ContinueOnError |-> FALSE, Commands |-> c,
      Condition |-> NoCondition, Short |-> FALSE] :
        r \in BOOLEAN, c \in {{"custom"}, {"custom", "cd"}}}

DispatchLines ==
    {Ln(n, v, <<SubDir>>) : n \in BOOLEAN, v \in {"cd", "mkdir"}}
    \cup {Ln(n, "exec", <<p>>) : n \in BOOLEAN, p \in {ProgOk, ProgKo}}
    \cup {Ln(n, v, <<>>) : n \in BOOLEAN, v \in {"custom", "ok", "ko", "no"}}

InitDispatch == params \in DispatchParams /\ FirstScript

NextDispatch ==
    \/ \E l \in DispatchLines :
          \/ cmdCD(l)
          \/ cmdMkdir(l)
          \/ cmdExecFg(l)
          \/ cmdCustom(l)
          \/ cmdImplicitExec(l)
          \/ unknownCommand(l)
    \/ endOfScript

SpecDispatch == InitDispatch /\ [][NextDispatch]_vars

(* ------------------------------- http --------------------------------- *)

\* The verbs of the HTTP commands of the command table.
httpCmds == {"http", "httpstatus", "httpheader"}

HeaderContentType == "Content-Type"
HeaderRequestId   == "X-Request-Id"

\* A response of the server: its status, the headers the script can ask for
\* and its body. A header that is not set reads as the empty string.
Response(status, ctype, body) ==
    [status |-> status,
     headers |-> [h \in {HeaderContentType, HeaderRequestId} |->
                     IF h = HeaderContentType THEN ctype ELSE <<>>],
     body |-> body]

\* testHTTPHandler, the server of the repository's HTTP tests: "ok" at
\* /health, a JSON document at /api/info, 201 at /created and 404 "not found"
\* everywhere else. Bodies and content types are abbreviated to their first
\* letters ("j;u" is a JSON type with a charset, "t" is text/plain).
Serve(method, path) ==
    IF method = "GET" /\ path = "/health"
    THEN Response(200, <<"t">>, <<"o", "k">>)
    ELSE IF method = "GET" /\ path = "/api/info"
    THEN Response(200, <<"j", ";", "u">>, <<"h">>)
    ELSE IF path = "/created"
    THEN Response(201, <<"t">>, <<"b">>)
    ELSE Response(404, <<"t">>, <<"n", "f">>)

\* A response status of the 2xx class.
Is2xx(status) == status >= 200 /\ status < 300

\* A verdict on a response that the negation flag does not invert.
HTTPVerdictIgnoresNeg(status, neg) == ~Is2xx(status)

\* The verdict of an http line: fatal or not. A status outside 2xx is a
\* failure, under the negation rule of a process exit status.
HTTPVerdict(status, neg) == ExecVerdict(~Is2xx(status), neg)

\* A retained state that only the first http call of a script fills.
RetainFirst(old, resp) == IF old = NoHTTP THEN resp ELSE old

\* The retained state after an http call: the response of that call.
Retain(old, resp) == resp

\* A verdict on a missing state that the negation flag inverts.
NoStateNegated(neg) == ~neg

\* The verdict of httpstatus and httpheader when no http call was made: a
\* usage error, fatal whatever neg is.
NoStateVerdict(neg) == TRUE

\* parseLine and cmdExec up to the call of the handler of an HTTP command.
BeginHTTP(l, verb) ==
    /\ pc = "run"
    /\ lineno < MaxLines
    /\ CondPasses(l)
    /\ l.verb = verb
    /\ verb \in httpCmds
    /\ lineno' = lineno + 1
    /\ line' = l
    /\ parsed' = [kind |-> "builtin", raw |-> l]
    /\ UNCHANGED suiteVars

\* http METHOD URL: one request; the body becomes the last stdout, status and
\* headers are retained, then the verdict on the status.
cmdHTTP(l) ==
    /\ BeginHTTP(l, "http")
    /\ Len(l.args) >= 2
    /\ LET resp == Serve(l.args[1], l.args[2])
       IN  /\ httpState' = Retain(httpState, resp)
           /\ stdout' = resp.body
           /\ IF ~HTTPVerdict(resp.status, l.neg) THEN Flags(FALSE, stopped)
              ELSE IF FatalReturns THEN Flags(TRUE, stopped) ELSE Goexit
    /\ UNCHANGED <<host, flakyCount, project, cd, envVars, stderr, jobVars, dirs, waitLocals>>

\* httpstatus CODE: the retained status is CODE.
cmdHTTPStatus(l) ==
    /\ BeginHTTP(l, "httpstatus")
    /\ Len(l.args) >= 1
    /\ LET fatal == IF httpState = NoHTTP THEN NoStateVerdict(l.neg)
                    ELSE (httpState.status = l.args[1]) = l.neg
       IN  IF ~fatal THEN Flags(FALSE, stopped)
           ELSE IF FatalReturns THEN Flags(TRUE, stopped) ELSE Goexit
    /\ UNCHANGED <<host, flakyCount, project, httpState, cd, envVars, outVars, jobVars, dirs,
                   waitLocals>>

\* httpheader NAME VALUE: the retained header NAME contains VALUE.
cmdHTTPHeader(l) ==
    /\ BeginHTTP(l, "httpheader")
    /\ Len(l.args) >= 2
    /\ LET fatal == IF httpState = NoHTTP THEN NoStateVerdict(l.neg)
                    ELSE Contains(httpState.headers[l.args[1]], l.args[2])
                            = l.neg
       IN  IF ~fatal THEN Flags(FALSE, stopped)
           ELSE IF FatalReturns THEN Flags(TRUE, stopped) ELSE Goexit
    /\ UNCHANGED <<host, flakyCount, project, httpState, cd, envVars, outVars, jobVars, dirs,
                   waitLocals>>

\* Scripts of the HTTP tests: requests to the four kinds of path, assertions
\* on the status, on a header and on the body.
Paths == {"/health", "/api/info", "/created", "/missing"}

HTTPLines ==
    {Ln(n, "http", <<"GET", p>>) : n \in BOOLEAN, p \in Paths}
    \cup {Ln(n, "httpstatus", <<c>>) : n \in BOOLEAN, c \in {200, 201, 404}}
    \cup {Ln(n, "httpheader", <<HeaderContentType, v>>) :
            n \in BOOLEAN, v \in {<<"j">>, <<"t">>}}
    \cup {Ln(n, "httpheader", <<HeaderRequestId, <<"a">>>>) : n \in BOOLEAN}
    \cup {Ln(n, "stdout", <<v>>) : n \in BOOLEAN, v \in {<<"o">>, <<"n">>}}

NextHTTP ==
    \/ \E l \in HTTPLines :
          \/ cmdHTTP(l)
          \/ cmdHTTPStatus(l)
          \/ cmdHTTPHeader(l)
          \/ cmdStdout(l)
    \/ endOfScript

SpecHTTP == Init /\ [][NextHTTP]_vars

(* ------------------------ background specifiers ----------------------- *)

\* Last tokens of an exec line: the two forms of the documented grammar, a
\* doubled `&`, a name closed by a second `&`, and a name that starts with a
\* digit.
LastTokens ==
    {<<"&">>, <<"&">> \o NameA, <<"&", "&">>, <<"&">> \o NameA \o <<"&">>,
     <<"&", "1", "x">>}

\* exec lines of a program that exits with 0, alone or before a last token,
\* and the line `exec &`.
SpecifierLines ==
    {Ln(n, "exec", <<ProgOk, t>>) : n \in BOOLEAN, t \in LastTokens}
    \cup {Ln(n, "exec", <<ProgOk>>) : n \in BOOLEAN}
    \cup {Ln(FALSE, "exec", <<<<"&">>>>)}

NextSpecifier ==
    \/ \E l \in SpecifierLines : cmdExecFg(l) \/ cmdExecBg(l)
    \/ cmdExecBgRegister
    \/ endOfScript
    \/ background_task

SpecSpecifier == Init /\ [][NextSpecifier]_vars

(* --------------------------- names of jobs ---------------------------- *)

NameBg1 == <<"b", "g", "1">>

\* Background spawns without a name, under the name a and under a name of
\* the generated form, and the waits that remove one job.
NameLines ==
    {Ln(FALSE, "exec", <<ProgOk, <<"&">> \o n>>) : n \in {<<>>, NameA, NameBg1}}
    \cup {Ln(FALSE, "wait", <<n>>) : n \in {NameA, NameBg0, NameBg1}}

NextNames ==
    \/ \E l \in NameLines : cmdExecBg(l) \/ cmdWait(l)
    \/ cmdExecBgRegister
    \/ cmdWaitJoin
    \/ endOfScript
    \/ background_task

SpecNames == Init /\ [][NextNames]_vars

(* ----------------------- jobs at the end of a run --------------------- *)

\* Scripts that spawn a job and end by their last line, a stop, a skip or a
\* wait.
JobLines ==
    {Ln(n, "exec", <<ProgOk, <<"&">>>>) : n \in BOOLEAN}
    \cup {Ln(FALSE, v, <<>>) : v \in {"wait", "stop", "skip"}}

NextJobs ==
    \/ \E l \in JobLines :
          \/ cmdExecBg(l)
          \/ cmdWait(l)
          \/ cmdStop(l)
          \/ cmdSkip(l)
    \/ cmdExecBgRegister
    \/ cmdWaitJoin
    \/ endOfScript
    \/ nextScript
    \/ suiteEnds
    \/ background_task

SpecJobs == Init /\ [][NextJobs]_vars

(* ------------------- waitOrStop with a grace period ------------------- *)

\* A call waitOrStop(ctx, cmd, interrupt) with interrupt >= 0, on a build for
\* the platform goos: the position of the call (at), the process (st, as
\* cmd.Wait reports it on the channel done), the context, the timer of
\* time.After(interrupt) and the signals that reached the process.
StopCall(prog, goos) ==
    [prog |-> prog, goos |-> goos, at |-> "start", st |-> "pending",
     cancelled |-> FALSE, elapsed |-> FALSE, sent |-> <<>>]

\* Process.Signal and Process.Kill reach a process that has not ended; for
\* one that cmd.Wait has reaped they return os.ErrProcessDone.
Deliver(job, sig) == IF job.st = "running" THEN Append(job.sent, sig) ELSE job.sent

\* An enclosing operation calls waitOrStop for a command it built.
stopCall(prog, goos) ==
    /\ pc = "run"
    /\ Len(jobs) < MaxJobs
    /\ jobs' = Append(jobs, StopCall(prog, goos))
    /\ UNCHANGED mainVars

\* Lines 1161-1165: cmd.Start; its error is returned.
stopStart(j) ==
    /\ j \in 1..Len(jobs)
    /\ jobs[j].at = "start"
    /\ jobs' = [jobs EXCEPT ![j] =
                  IF CanStart(jobs[j].prog)
                  THEN [@ EXCEPT !.st = "running", !.at = "select"]
                  ELSE [@ EXCEPT !.st = "startfailed", !.at = "returned"]]
    /\ UNCHANGED mainVars

\* The process ends, by itself or by a signal: cmd.Wait returns and the
\* goroutine of lines 1168-1170 puts its result on done.
stopExit(j) ==
    /\ j \in 1..Len(jobs)
    /\ jobs[j].st = "running"
    /\ jobs' = [jobs EXCEPT ![j] = [@ EXCEPT !.st = "exited"]]
    /\ UNCHANGED mainVars

\* The caller cancels ctx.
stopCancel(j) ==
    /\ j \in 1..Len(jobs)
    /\ jobs[j].at # "returned"
    /\ ~jobs[j].cancelled
    /\ jobs' = [jobs EXCEPT ![j] = [@ EXCEPT !.cancelled = TRUE]]
    /\ UNCHANGED mainVars

\* Lines 1177-1179: the select takes the case of done.
stopSelectDone(j) ==
    /\ j \in 1..Len(jobs)
    /\ jobs[j].at = "select"
    /\ jobs[j].st = "exited"
    /\ jobs' = [jobs EXCEPT ![j] = [@ EXCEPT !.at = "returned"]]
    /\ UNCHANGED mainVars

\* Lines 1180-1187: the select takes the case of ctx.Done, which it may also
\* do when done is ready: Kill on windows, an interrupt elsewhere.
stopSelectCancelled(j) ==
    /\ j \in 1..Len(jobs)
    /\ jobs[j].at = "select"
    /\ jobs[j].cancelled
    /\ jobs' = [jobs EXCEPT ![j] =
                  IF jobs[j].goos = "windows"
                  THEN [@ EXCEPT !.sent = Deliver(jobs[j], "kill"),
                                 !.at = "returned"]
                  ELSE [@ EXCEPT !.sent = Deliver(jobs[j], "interrupt"),
                                 !.at = "grace"]]
    /\ UNCHANGED mainVars

\* The timer of time.After(interrupt) fires.
stopTimer(j) ==
    /\ j \in 1..Len(jobs)
    /\ jobs[j].at = "grace"
    /\ ~jobs[j].elapsed
    /\ jobs' = [jobs EXCEPT ![j] = [@ EXCEPT !.elapsed = TRUE]]
    /\ UNCHANGED mainVars

\* Lines 1189-1191: the process ended within the grace period.
stopGraceDone(j) ==
    /\ j \in 1..Len(jobs)
    /\ jobs[j].at = "grace"
    /\ jobs[j].st = "exited"
    /\ jobs' = [jobs EXCEPT ![j] = [@ EXCEPT !.at = "returned"]]
    /\ UNCHANGED mainVars

\* Lines 1192-1193: the timer fired; Kill.
stopGraceKill(j) ==
    /\ j \in 1..Len(jobs)
    /\ jobs[j].at = "grace"
    /\ jobs[j].elapsed
    /\ jobs' = [jobs EXCEPT ![j] = [@ EXCEPT !.sent = Deliver(jobs[j], "kill"),
                                            !.at = "returned"]]
    /\ UNCHANGED mainVars

NextStop ==
    \/ \E p \in {ProgOk, ProgNoFile}, g \in {"linux", "windows"} : stopCall(p, g)
    \/ \E j \in 1..MaxJobs :
          \/ stopStart(j)
          \/ stopExit(j)
          \/ stopCancel(j)
          \/ stopSelectDone(j)
          \/ stopSelectCancelled(j)
          \/ stopTimer(j)
          \/ stopGraceDone(j)
          \/ stopGraceKill(j)

SpecStop == Init /\ [][NextStop]_vars

(* ----------------------------- project run ---------------------------- *)

\* A project directory: it has a bin directory or not, a global setup script
\* that exits with zero ("zero") or not ("nonzero") or none (""), and a
\* global teardown script or not.
ProjectConfigs ==
    [bin : BOOLEAN, setup : {"", "zero", "nonzero"}, teardown : BOOLEAN]

\* A failure of the global setup that leaves the wrapper directory behind.
SetupFailureKeepsWrapper(p) == [p EXCEPT !.err = TRUE, !.at = "returned"]

\* prepareProject when the global setup failed: binCleanup() and an error;
\* the cleanup it returns does nothing.
SetupFailure(p) ==
    [p EXCEPT !.wrapper = FALSE, !.err = TRUE, !.at = "returned"]

\* The cleanup prepareProject returns when the setup passed: the global
\* teardown, if the project has one, then binCleanup().
Cleanup(p) ==
    [p EXCEPT !.teardowns = @ + (IF p.cfg.teardown THEN 1 ELSE 0),
              !.wrapper = FALSE,
              !.at = "returned"]

\* What a step of the project run leaves alone.
suiteState ==
    <<host, flakyCount, httpState, lineno, line, lineFatal, skipped, stopped, cd, envVars,
      outVars, jobVars, dirs, waitLocals, suiteVars, parsed>>

\* RunWithProject and RunStandaloneWithProject, the configuration loaded.
projectCall(cfg) ==
    /\ pc = "run"
    /\ lineno = 0
    /\ script = 1
    /\ project = NoProject
    /\ project' = [at |-> "bin", cfg |-> cfg, wrapper |-> FALSE,
                   setup |-> "notrun", teardowns |-> 0, err |-> FALSE]
    /\ pc' = "project"
    /\ UNCHANGED <<failed, suiteState>>

\* prepareBinDir: the temporary directory of the wrappers, when there is a
\* bin directory.
prepareBinDir ==
    /\ pc = "project"
    /\ project.at = "bin"
    /\ project' = [project EXCEPT !.wrapper = project.cfg.bin, !.at = "setup"]
    /\ UNCHANGED <<pc, failed, suiteState>>

\* prepareProject, lines 263-269: the global setup script, and the return of
\* the caller when it failed (an error, or t.Fatal under testing.T).
runGlobalSetup ==
    /\ pc = "project"
    /\ project.at = "setup"
    /\ IF project.cfg.setup = "nonzero"
       THEN /\ project' = SetupFailure([project EXCEPT !.setup = "failed"])
            /\ pc' = "returned"
            /\ failed' = (failed \/ host = "testing")
       ELSE /\ project' = [project EXCEPT
                             !.setup = IF project.cfg.setup = "" THEN "notrun"
                                       ELSE "passed",
                             !.at = "scripts"]
            /\ pc' = "run"
            /\ failed' = failed
    /\ UNCHANGED suiteState

\* The deferred cleanup() of the caller, after Run or RunStandalone; the
\* standalone caller returns an error when a script failed.
projectCleanup ==
    /\ pc = "end"
    /\ project.at = "scripts"
    /\ project' = [Cleanup(project) EXCEPT !.err = (host = "standalone" /\ failed)]
    /\ pc' = "returned"
    /\ UNCHANGED <<failed, suiteState>>

NextProject ==
    \/ \E cfg \in ProjectConfigs : projectCall(cfg)
    \/ prepareBinDir
    \/ runGlobalSetup
    \/ projectCleanup
    \/ NextSuite

SpecProject == InitSuite /\ [][NextProject]_vars

(* ------------------------------ repeat -------------------------------- *)

\* The largest COUNT of a repeat line.
MaxCount == 9

\* The server of TestHTTPRepeat fails every third request to /flaky.
FlakyPeriod == 3

\* Tokens of a repeat line.
AllFlag   == <<"-", "a", "l", "l">>
WordExec  == <<"e", "x", "e", "c">>
WordHTTP  == <<"h", "t", "t", "p">>
WordMkdir == <<"m", "k", "d", "i", "r">>
WordGet   == <<"G", "E", "T">>
FlakyPath == <<"/", "f">>

\* strconv.Atoi of a token of decimal digits; -1 for any other token.
RECURSIVE Atoi(_)
Atoi(tok) ==
    IF tok = <<>> THEN -1
    ELSE IF tok[Len(tok)] \notin Digits THEN -1
    ELSE LET d == CHOOSE n \in 0..9 : Digit(n) = tok[Len(tok)]
         IN  IF Len(tok) = 1 THEN d
             ELSE IF Atoi(SubSeq(tok, 1, Len(tok) - 1)) < 0 THEN -1
             ELSE 10 * Atoi(SubSeq(tok, 1, Len(tok) - 1)) + d

\* The handler of TestHTTPRepeat for the n-th request to /flaky; every other
\* path answers "ok".
ServeFlaky(path, n) ==
    IF path = FlakyPath /\ n % FlakyPeriod = 0
    THEN Response(500, <<"t">>, <<"s", "e">>)
    ELSE Response(200, <<"t">>, <<"o", "k">>)

\* The parts of `repeat [-all] COUNT <wrapped command>`.
RepeatOf(l) ==
    LET all  == l.args # <<>> /\ l.args[1] = AllFlag
        rest == IF all THEN Tail(l.args) ELSE l.args
    IN  [all |-> all, count |-> Atoi(rest[1]), verb |-> rest[2],
         args |-> SubSeq(rest, 3, Len(rest))]

\* A repeat that wraps any command.
AcceptsAny(verb) == TRUE

\* The wrapped commands repeat accepts.
Accepts(verb) == verb \in {WordExec, WordHTTP}

\* One iteration passes: the program exits with 0, the response is 2xx; n is
\* the number of requests the server has had, this one included.
IterationPasses(r, n) ==
    IF r.verb = WordExec THEN ExitCode(r.args[1]) = 0
    ELSE IF r.verb = WordHTTP THEN Is2xx(ServeFlaky(r.args[2], n).status)
    ELSE TRUE

\* A loop that goes on after a failing iteration, -all or not.
ContinuesAlways(all, ok) == TRUE

\* The loop goes on after an iteration: always with -all, without it only
\* when the iteration passed.
Continues(all, ok) == all \/ ok

\* The outcomes of the iterations that run, in order (TRUE for a pass), the
\* server having had n requests before the line.
RECURSIVE Iterations(_, _, _)
Iterations(r, n, acc) ==
    IF Len(acc) >= r.count THEN acc
    ELSE LET ok == IterationPasses(r, n + Len(acc) + 1)
         IN  IF Continues(r.all, ok) THEN Iterations(r, n, Append(acc, ok))
             ELSE Append(acc, ok)

\* RepeatStats: the passed and the failed iterations and the index of the
\* first failure (0 for none).
Stats(runs) ==
    [passed |-> Cardinality({i \in 1..Len(runs) : runs[i]}),
     failed |-> Cardinality({i \in 1..Len(runs) : ~runs[i]}),
     first  |-> IF \E i \in 1..Len(runs) : ~runs[i]
                THEN CHOOSE i \in 1..Len(runs) :
                        ~runs[i] /\ \A j \in 1..(i-1) : runs[j]
                ELSE 0]

\* The summary: "P/N passed" and, when an iteration failed, "F/N failed" and
\* "first at iteration I" (the words abbreviated to p, f and @).
Summary(st, total) ==
    Itoa(st.passed) \o <<"/">> \o Itoa(total) \o <<"p">>
    \o (IF st.failed = 0 THEN <<>>
        ELSE <<";">> \o Itoa(st.failed) \o <<"/">> \o Itoa(total) \o <<"f">>
             \o <<";", "@">> \o Itoa(st.first))

\* A verdict of repeat that the negation prefix does not invert.
RepeatVerdictIgnoresNeg(st, neg) == st.failed # 0

\* The verdict of the repeat line: fatal or not. It succeeds when no
\* iteration failed, inverted by its own negation prefix.
RepeatVerdict(st, neg) == (st.failed = 0) = neg

\* parseLine and cmdExec up to the call of the handler of repeat; the
\* outcomes of the iterations are kept with the parsed line.
BeginRepeat(l, runs) ==
    /\ pc = "run"
    /\ lineno < MaxLines
    /\ CondPasses(l)
    /\ l.verb = "repeat"
    /\ Len(l.args) >= 3
    /\ RepeatOf(l).count >= 0
    /\ lineno' = lineno + 1
    /\ line' = l
    /\ parsed' = [kind |-> "builtin", raw |-> l, runs |-> runs]
    /\ UNCHANGED suiteVars

\* The output the last iteration leaves: that of the program, or the body of
\* the response, which is also retained.
LastOutput(r, n) ==
    IF r.verb = WordExec
    THEN [stdout |-> ProgStdout(r.args[1]), http |-> httpState]
    ELSE IF r.verb = WordHTTP
    THEN [stdout |-> ServeFlaky(r.args[2], n).body,
          http |-> ServeFlaky(r.args[2], n)]
    ELSE [stdout |-> <<>>, http |-> httpState]

\* repeat [-all] COUNT <wrapped command>.
cmdRepeat(l) ==
    /\ l.verb = "repeat"
    /\ Len(l.args) >= 3
    /\ LET r == RepeatOf(l)
           runs == IF Accepts(r.verb) THEN Iterations(r, flakyCount, <<>>)
                   ELSE <<>>
           st   == Stats(runs)
           hits == IF r.verb = WordHTTP THEN Len(runs) ELSE 0
           last == LastOutput(r, flakyCount + hits)
       IN  /\ BeginRepeat(l, runs)
           /\ flakyCount' = flakyCount + hits
           /\ stdout' = IF runs = <<>> THEN stdout ELSE last.stdout
           /\ httpState' = IF runs = <<>> THEN httpState ELSE last.http
           /\ stderr' = IF Accepts(r.verb) THEN Summary(st, r.count) ELSE stderr
           /\ IF ~Accepts(r.verb) \/ RepeatVerdict(st, l.neg)
              THEN IF FatalReturns THEN Flags(TRUE, stopped) ELSE Goexit
              ELSE Flags(FALSE, stopped)
    /\ UNCHANGED <<host, project, cd, envVars, jobVars, dirs, waitLocals>>

\* Scripts of repeat lines: a program that passes, one that fails, the flaky
\* server and a command repeat does not wrap; and assertions on the summary.
Counts == {1, FlakyPeriod, MaxCount}

RepeatLines ==
    LET flags == {<<>>, <<AllFlag>>}
    IN  {Ln(n, "repeat", f \o <<Itoa(k), WordExec, p>>) :
            n \in BOOLEAN, f \in flags, k \in Counts, p \in {ProgOk, ProgKo}}
        \cup {Ln(n, "repeat", f \o <<Itoa(k), WordHTTP, WordGet, FlakyPath>>) :
                n \in BOOLEAN, f \in flags, k \in Counts}
        \cup {Ln(n, "repeat", f \o <<Itoa(k), WordMkdir, SubDir>>) :
                n \in BOOLEAN, f \in flags, k \in {FlakyPeriod}}
        \cup {Ln(FALSE, "stderr", <<s>>) :
                s \in {<<"6", "/", "9", "p">>, <<"3", "/", "9", "f">>}}

NextRepeat ==
    \/ \E l \in RepeatLines : cmdRepeat(l) \/ cmdStderr(l)
    \/ endOfScript

SpecRepeat == Init /\ [][NextRepeat]_vars

(* ====================================================================== *)
(* Claims                                                                 *)
(* ====================================================================== *)

\* The handler of `line` has ended (it returned, or a Fatal abandoned it).
LineEnded == pc \in {"run", "done"} /\ line # NoLine

IsExec(l) == l.verb = "exec" /\ Len(l.args) >= 1
IsFgExec(l) == IsExec(l) /\ ~IsBackground(l)
IsBgExec(l) == IsExec(l) /\ IsBackground(l)

\* C1: a foreground exec whose program was started makes its line a failure
\* exactly when (the exit status is zero) = (the line is negated).
C1_ForegroundVerdict ==
    (LineEnded /\ IsFgExec(line) /\ Resolves(line.args[1]) /\ CanStart(line.args[1]))
        => (lineFatal <=> ((ExitCode(line.args[1]) = 0) = line.neg))

\* C1 witness: `! exec ko` ran, ko exited nonzero, and the line passed.
C1_Witness ==
    /\ LineEnded
    /\ line = Ln(TRUE, "exec", <<ProgKo>>)
    /\ stdout = ProgStdout(ProgKo)
    /\ ~lineFatal
    /\ pc = "run"

RawSuccess(l) ==
    CASE l.verb \in {"mkdir", "rm", "env", "stop", "skip", "custom"} -> TRUE
      [] l.verb = "exists" -> IsDir(mkabs(l.args[1])) \/ IsFile(mkabs(l.args[1]))
      [] l.verb = "grep"   -> /\ IsFile(mkabs(l.args[2]))
                              /\ Contains(DataContent, l.args[1])
      [] l.verb = "stdout" -> Contains(stdout, l.args[1])
      [] l.verb = "stderr" -> Contains(stderr, l.args[1])
      [] OTHER             -> ExitCode(l.args[1]) = 0

HasRawSuccess(l) ==
    \/ l.verb \in {"mkdir", "rm", "env", "stop", "skip", "custom", "exists",
                   "stdout", "stderr"}
    \/ l.verb = "grep" /\ IsFile(mkabs(l.args[2]))
    \/ IsFgExec(l) /\ Resolves(l.args[1]) /\ CanStart(l.args[1])

\* C2: for every command of the dispatcher and every negation flag, the line is
\* a failure exactly when (raw success of the command) = (negation flag).
C2_UniformNegation ==
    (LineEnded /\ HasRawSuccess(line))
        => (lineFatal <=> (RawSuccess(line) = line.neg))

\* C4: the registry never holds two jobs of the same name, on either host.
C4_UniqueJobNames ==
    \A i, j \in 1..Len(background) :
        i # j => background[i].name # background[j].name

\* A step that ends the handler of a wait line: it returned or was abandoned.
WaitEnds ==
    /\ line'.verb = "wait"
    /\ pc' \in {"run", "done"}
    /\ \/ pc = "wait"
       \/ pc = "run" /\ lineno' = lineno + 1

\* Every name the wait line gives is the name of a live job.
KnownNames(l, bg) == \A i \in 1..Len(l.args) : findBackground(bg, l.args[i]) # 0

\* A step in which cmdWait returns to its caller.
WaitReturns == WaitEnds /\ (FatalReturns \/ ~lineFatal')

\* The registry entries a wait line joins, in the order it waits on them.
JoinedBy(l, bg) == LET w == waitList(l, bg) IN [i \in 1..Len(w) |-> bg[w[i]]]

\* The entries of the registry whose name is none of `names`, in order.
RECURSIVE Without(_, _)
Without(bg, names) ==
    IF bg = <<>> THEN <<>>
    ELSE IF \E i \in 1..Len(names) : names[i] = Head(bg).name
         THEN Without(Tail(bg), names)
         ELSE <<Head(bg)>> \o Without(Tail(bg), names)

\* C5: after `wait` the registry is empty whatever the outcomes of the joined
\* jobs; after `wait n1 ... nk` (each a live job) exactly the entries named
\* n1..nk are gone and the others are left as they were, in order.
C5_WaitEmptiesRegistry ==
    [][(WaitEnds /\ KnownNames(line', background)) =>
         background' = IF line'.args = <<>> THEN <<>>
                       ELSE Without(background, line'.args)]_vars

\* Everything the process of a registry entry wrote to its stdout / stderr.
JobStdout(e) == IF jobs[e.job].st = "exited" THEN ProgStdout(jobs[e.job].prog) ELSE <<>>
JobStderr(e) == IF jobs[e.job].st = "exited" THEN ProgStderr(jobs[e.job].prog) ELSE <<>>

\* C6: when a wait returns, the last stdout is the concatenation, in the order
\* waited on, of what each joined job's process wrote to stdout; likewise stderr.
C6_WaitOutputIsJobsOutput ==
    [][(WaitReturns /\ KnownNames(line', background)) =>
         LET js == JoinedBy(line', background)
         IN  /\ stdout' = Join([i \in 1..Len(js) |-> JobStdout(js[i])])
             /\ stderr' = Join([i \in 1..Len(js) |-> JobStderr(js[i])])]_vars

\* The step of a background exec that copies the job's builders into the registry.
RegisterStep == pc = "spawn" /\ pc' # "spawn"

\* C7: a wait returns only after the completion signal of every job it joins;
\* a signal fires only after the job's process has exited; the main flow reads
\* a job's output buffers only after that signal.
C7_JoinAfterSignal ==
    [][/\ (WaitReturns /\ KnownNames(line', background)) =>
             \A i \in 1..Len(JoinedBy(line', background)) :
                 jobs[JoinedBy(line', background)[i].job].sig
       /\ \A j \in 1..Len(jobs') : jobs'[j].sig => jobs'[j].st = "exited"
       /\ RegisterStep => jobs[Len(jobs)].sig]_vars

\* The process of a registry entry exited with status zero.
ExitedZero(e) == jobs[e.job].st = "exited" /\ ExitCode(jobs[e.job].prog) = 0

\* C8: the wait line fails exactly when at least one joined job has
\* (process exited with status zero) = (its recorded negation flag); the
\* negation prefix of the wait line plays no part.
C8_WaitJudgesEachJob ==
    [][(WaitEnds /\ KnownNames(line', background)) =>
         (lineFatal' <=>
            \E i \in 1..Len(JoinedBy(line', background)) :
                LET e == JoinedBy(line', background)[i]
                IN  ExitedZero(e) = e.neg)]_vars

\* C9: a negated background exec gets no verdict from the negation at its
\* spawn line: it is judged only by the wait that joins it.
C9_NegatedSpawnNotJudged ==
    (/\ LineEnded
     /\ IsBgExec(line)
     /\ line.neg
     /\ Resolves(line.args[1])
     /\ Len(background) > 0
     /\ background[Len(background)].neg
     /\ \A i \in 1..(Len(background) - 1) :
            background[i].name # background[Len(background)].name)
        => ~lineFatal

\* C10: the environment and directory a job's process is started with are the
\* values the script environment and directory had when its spawn line ran.
C10_EnvSnapshotAtSpawn ==
    \A j \in 1..Len(jobs) :
        jobs[j].st \in {"running", "exited"} =>
            /\ jobs[j].startEnv = jobs[j].spawnEnv
            /\ jobs[j].startDir = jobs[j].dir

(* ------------------------------ C11 ----------------------------------- *)

\* C11: the step of a background exec that registers the spawned job leaves
\* the last stdout and the last stderr both empty, whatever they held before.
C11_SpawnClearsOutput ==
    [][RegisterStep => (stdout' = <<>> /\ stderr' = <<>>)]_vars

\* A job was spawned by the second line of a script and the last output is empty.
C11_Witness ==
    /\ LineEnded
    /\ IsBgExec(line)
    /\ lineno = 2
    /\ Len(background) = 1
    /\ background[1].job = Len(jobs)
    /\ stdout = <<>>
    /\ stderr = <<>>

(* ------------------------------ C12 ----------------------------------- *)

\* A step of the main flow that dispatches a line.
Dispatches == lineno' = lineno + 1

\* A step of the handler of the line in line'.
HandlerStep == Dispatches \/ pc \in {"spawn", "wait"}

\* The captured output of the registry entries a wait joins, the empty
\* contributions left out: stdout and stderr of the same entries, same order.
RECURSIVE Captured(_, _)
Captured(entries, stream) ==
    IF entries = <<>> THEN <<>>
    ELSE (IF stream = "stdout" THEN Head(entries).stdout ELSE Head(entries).stderr)
         \o Captured(Tail(entries), stream)

\* The pairs (stdout, stderr) one line can leave as the last output.
OutputPairs(l, bg) ==
    IF l.verb = "wait"
    THEN {<<Captured(JoinedBy(l, bg), "stdout"), Captured(JoinedBy(l, bg), "stderr")>>}
    ELSE IF l.verb = "exec" /\ ~IsBackground(l)
    THEN {<<ProgStdout(l.args[1]), ProgStderr(l.args[1])>>, <<<< >>, << >>>>}
    ELSE IF l.verb = "exec"
    THEN {<<<< >>, << >>>>}
    ELSE {}

\* C12: every step either leaves the last stdout and stderr both as they
\* were, or is a step of a foreground exec, a background spawn or a wait that
\* sets both to the output of that one line; no other command writes either.
C12_OutputOfOneLine ==
    [][\/ UNCHANGED <<stdout, stderr>>
       \/ /\ HandlerStep
          /\ <<stdout', stderr'>> \in OutputPairs(line', background)]_vars

\* A wait has made the output of the job it joined the last output.
C12_Witness ==
    /\ LineEnded
    /\ line.verb = "wait"
    /\ stdout = ProgStdout(ProgOk)
    /\ stderr = ProgStderr(ProgOk)

(* ------------------------------ C16 ----------------------------------- *)

\* C16: the step that executes a stop line raises the stopped flag, does not
\* mark the script failed and leaves the rest of the script state as it was;
\* once stopped, no line is dispatched.
C16_StopEndsScript ==
    [][/\ (Dispatches /\ line'.verb = "stop") =>
             /\ stopped'
             /\ ~lineFatal'
             /\ failed' = failed
             /\ pc' = "done"
             /\ UNCHANGED <<cd, env, envMap, heap, stdout, stderr, background,
                            jobs, dirs, skipped>>
       /\ stopped => ~Dispatches]_vars

\* A script stopped at its third line, not failed, its effects kept.
C16_Witness ==
    /\ line.verb = "stop"
    /\ lineno = 3
    /\ stopped
    /\ ~failed
    /\ pc = "done"
    /\ dirs = {SubDir}
    /\ cd = JoinPath(WorkDir, SubDir)

(* ------------------------------ C19 ----------------------------------- *)

\* The same line with the other negation flag.
Flip(l) == [l EXCEPT !.neg = ~l.neg]

\* The registry without the recorded negation flags.
BgShape(bg) ==
    [i \in 1..Len(bg) |->
        [name |-> bg[i].name, job |-> bg[i].job,
         stdout |-> bg[i].stdout, stderr |-> bg[i].stderr]]

\* What a line can change besides its verdict: directory, environment, last
\* output, filesystem, spawned processes, registered jobs.
Effects ==
    <<cd, SliceVal(heap, env), envMap, stdout, stderr, dirs, jobs,
      BgShape(background)>>

\* C19: from every state, the line with the other negation flag has the same
\* effects as the line that ran: same directory, environment, last output,
\* filesystem and spawned processes, at the dispatch of the line and at the
\* registration of a background job.
C19_NegationKeepsEffects ==
    [][/\ Dispatches =>
             \E e \in {Effects'}, t \in {Flip(line')} :
                 ENABLED (tableCommand(t) /\ Effects' = e)
       /\ RegisterStep =>
             \E e \in {Effects'}, t \in {Flip(line)} :
                 ENABLED (registerFor(t) /\ Effects' = e)]_vars

\* `! exec ok` failed the script and left the output of ok as the last output.
C19_Witness ==
    /\ LineEnded
    /\ line = Ln(TRUE, "exec", <<ProgOk>>)
    /\ lineno = 2
    /\ lineFatal
    /\ stdout = ProgStdout(ProgOk)
    /\ stderr = ProgStderr(ProgOk)

(* ------------------------------ C20 ----------------------------------- *)

\* The truth of a condition tag on this host: a platform name holds when it is
\* the platform of the host, and each leading "!" inverts.
RECURSIVE TagValue(_)
TagValue(c) ==
    IF c = <<>> THEN "unknown"
    ELSE IF Head(c) = "!"
    THEN (CASE TagValue(Tail(c)) = "true"  -> "false"
            [] TagValue(Tail(c)) = "false" -> "true"
            [] OTHER -> "unknown")
    ELSE IF Len(c) = 1 /\ c[1] \in {"linux", "windows", "darwin"}
    THEN (IF c[1] = "linux" THEN "true" ELSE "false")
    ELSE "unknown"

\* C20: the step that parses a line whose condition is false runs no handler
\* and leaves the whole script context as it was; only the line counter
\* advances, by one.
C20_FalseConditionSkips ==
    [][(/\ Dispatches
        /\ "cond" \in DOMAIN parsed'.raw
        /\ TagValue(parsed'.raw.cond) = "false") =>
          /\ parsed'.kind = "skipped"
          /\ lineno' = lineno + 1
          /\ UNCHANGED <<pc, line, lineFatal, failed, skipped, stopped, cd, env,
                         envMap, heap, stdout, stderr, background, jobs, dirs>>]_vars

\* `mkdir d` ran, then a `[!linux]` line was skipped and the script goes on.
C20_Witness ==
    /\ parsed.kind = "skipped"
    /\ parsed.raw.cond = <<"!", "linux">>
    /\ lineno = 2
    /\ line = Ln(FALSE, "mkdir", <<SubDir>>)
    /\ dirs = {SubDir}
    /\ pc = "run"

(* ------------------------------ C21 ----------------------------------- *)

\* The last line had a tag and its condition came out as a truth value.
TagDecided == HasCond(parsed.raw) /\ parsed.kind \in {"skipped", "builtin"}

\* C21: when the tag [T] of a line came out true (the line ran) or false (the
\* line was skipped), the tag [!T] evaluates, without error, to the opposite,
\* with the built-in tags and with a caller's predicate alike.
C21_BangInverts ==
    (TagDecided /\ ~lineFatal) =>
        LET bang == condition(<<"!">> \o parsed.raw.cond)
        IN  /\ ~bang.err
            /\ bang.ok <=> (parsed.kind = "skipped")

(* ------------------------------ C22 ----------------------------------- *)

\* The built-in tags, each with or without one "!".
Recognized ==
    {<<t>> : t \in {"short", "windows", "darwin", "linux"}}
    \cup {<<"!", t>> : t \in {"short", "windows", "darwin", "linux"}}

\* C22: with Params.Condition nil, the step that parses a line whose tag is
\* not a recognized built-in tag fails the script and calls no handler.
C22_UnknownTagFatal ==
    [][(/\ Dispatches
        /\ params.Condition.nil
        /\ HasCond(parsed'.raw)
        /\ parsed'.raw.cond \notin Recognized) =>
          /\ failed'
          /\ parsed'.kind = "conderror"
          /\ dirs' = dirs]_vars

(* ------------------------------ C23 ----------------------------------- *)

\* The line is an exec of a bare program name, in the foreground.
BareExec(l) ==
    /\ l.verb = "exec"
    /\ Len(l.args) = 1
    /\ ~ContainsRune(l.args[1], "/")

\* C23: the step that runs an exec line with a bare program name runs the
\* program (its output is the last stdout) exactly when the program is in the
\* directory the script's PATH names at that line; otherwise the line fails.
C23_ExecUsesScriptPath ==
    [][(Dispatches /\ BareExec(line')) =>
          IF LookPathOf(envMap[<<"P", "A", "T", "H">>], line'.args[1])
          THEN stdout' = ProgStdout(line'.args[1]) /\ ~lineFatal'
          ELSE stdout' = <<>> /\ lineFatal']_vars

(* ------------------------------ C24 ----------------------------------- *)

\* The entries of a list that hold key k.
EntriesOf(list, k) ==
    {i \in 1..Len(list) : Cut(list[i], "=").found /\ Cut(list[i], "=").before = k}

\* The keys of a list.
KeysOf(list) ==
    {Cut(list[i], "=").before : i \in {j \in 1..Len(list) : Cut(list[j], "=").found}}

\* One entry per key, and the map holds the keys and values of the list.
EnvConsistent(list, map) ==
    /\ \A k \in KeysOf(list) : Cardinality(EntriesOf(list, k)) = 1
    /\ DOMAIN map = KeysOf(list)
    /\ \A i \in 1..Len(list) :
          map[Cut(list[i], "=").before] = Cut(list[i], "=").after

\* The K=V writes of a step, in order: the word of an env line, the Setenv
\* calls of a Setup hook that has run.
Writes(p) ==
    IF p.kind = "setup"
    THEN [i \in 1..Len(p.raw.args) |->
             [key |-> p.raw.args[i].key, value |-> p.raw.args[i].value]]
    ELSE IF p.raw.verb = "env" /\ Len(p.raw.args) = 1 /\ Cut(p.raw.args[1], "=").found
    THEN <<[key |-> Cut(p.raw.args[1], "=").before,
            value |-> Cut(p.raw.args[1], "=").after]>>
    ELSE <<>>

\* The value the last write of key k gave it.
LastWrite(ws, k) ==
    ws[CHOOSE i \in 1..Len(ws) :
          ws[i].key = k /\ \A j \in (i + 1)..Len(ws) : ws[j].key # k].value

\* A step in which a line or the Setup hook got to write the environment.
WriteStep ==
    /\ parsed' # parsed \/ lineno' # lineno
    /\ pc' # "done" \/ ~lineFatal' \/ FatalReturns

\* C24: after every step the environment list holds one entry per key and
\* the map agrees with it; after a step of env lines or Setenv calls each
\* written key holds the value of its last write, and the other keys of the
\* list are as they were.
C24_EnvKeysUnique ==
    [][LET list == SliceVal(heap', env')
           old  == EnvMapOf(SliceVal(heap, env))
           ws   == Writes(parsed')
           keys == {ws[i].key : i \in 1..Len(ws)}
       IN  /\ EnvConsistent(list, envMap')
           /\ WriteStep =>
                 /\ \A k \in keys : envMap'[k] = LastWrite(ws, k)
                 /\ \A k \in DOMAIN old \ keys : envMap'[k] = old[k]
                 /\ DOMAIN envMap' = DOMAIN old \cup keys]_vars

\* After a hook that set S and K=1, `env K=2` replaced K and `env PATH=/x`
\* replaced PATH: six entries, each key once.
C24_Witness ==
    /\ parsed.raw = Ln(FALSE, "env", <<<<"P", "A", "T", "H", "=">> \o HelperDir>>)
    /\ env.len = EnvInitLen + 2
    /\ envMap[<<"K">>] = <<"2">>
    /\ envMap[<<"S">>] = <<"u">>
    /\ envMap[<<"P", "A", "T", "H">>] = HelperDir
    /\ pc = "run"

(* ------------------------------ C25 ----------------------------------- *)

\* The tokens of a line as the line grammar has them: words apart at white
\* space, a double-quoted segment kept whole with \" and \\ decoded; err when
\* a quote is left open. cur is the token begun (has says there is one), inq
\* that a quote is open.
RECURSIVE Split(_, _, _, _)
Split(s, cur, inq, has) ==
    IF s = <<>>
    THEN [toks |-> IF has THEN <<cur>> ELSE <<>>, err |-> inq]
    ELSE IF inq
    THEN IF Head(s) = Backslash /\ Len(s) > 1 /\ s[2] \in {Quote, Backslash}
         THEN Split(Tail(Tail(s)), cur \o <<s[2]>>, TRUE, TRUE)
         ELSE IF Head(s) = Quote
         THEN Split(Tail(s), cur, FALSE, TRUE)
         ELSE Split(Tail(s), cur \o <<Head(s)>>, TRUE, TRUE)
    ELSE IF Head(s) = Quote
    THEN Split(Tail(s), cur, TRUE, TRUE)
    ELSE IF IsSpace(Head(s))
    THEN [toks |-> (IF has THEN <<cur>> ELSE <<>>)
                     \o Split(Tail(s), <<>>, FALSE, FALSE).toks,
          err  |-> Split(Tail(s), <<>>, FALSE, FALSE).err]
    ELSE Split(Tail(s), cur \o <<Head(s)>>, FALSE, TRUE)

\* The line of text the step has read, and its grammar's tokens.
ReadsText == Dispatches /\ "text" \in DOMAIN parsed'.raw
Grammar(text) == Split(expandEnvVars(TrimSpace(text)), <<>>, FALSE, FALSE)

\* The text holds a double quote.
HasQuote(text) == \E i \in 1..Len(text) : text[i] = Quote

\* C25: the step that reads a line `c ...` with double-quoted segments, all
\* of them closed and none empty, calls the command c with one argument for
\* each segment,
\* the segment's text with its white space as written and its escapes decoded,
\* and one for each word outside the segments.
C25_QuotedSegmentOneToken ==
    [][(/\ ReadsText
        /\ HasQuote(parsed'.raw.text)
        /\ ~Grammar(parsed'.raw.text).err
        /\ Grammar(parsed'.raw.text).toks # <<>>
        /\ Head(Grammar(parsed'.raw.text).toks) = <<"c">>
        /\ <<>> \notin {Grammar(parsed'.raw.text).toks[i] :
                            i \in 1..Len(Grammar(parsed'.raw.text).toks)}) =>
          /\ parsed'.kind = "user"
          /\ parsed'.raw.args = Tail(Grammar(parsed'.raw.text).toks)]_vars

(* ------------------------------ C26 ----------------------------------- *)

\* C26: the step that reads a line with a double quote left open fails the
\* script and calls no command.
C26_OpenQuoteFatal ==
    [][(ReadsText /\ Grammar(parsed'.raw.text).err) =>
          /\ lineFatal'
          /\ failed'
          /\ parsed'.kind \notin {"user", "builtin", "exec"}]_vars

(* ------------------------------ C27 ----------------------------------- *)

\* The maximal runs of characters of s that are not white space, in order.
Runs(s) ==
    LET starts == {i \in 1..Len(s) :
                      ~IsSpace(s[i]) /\ (i = 1 \/ IsSpace(s[i - 1]))}
        last(i) == CHOOSE j \in i..Len(s) :
                      /\ \A k \in i..j : ~IsSpace(s[k])
                      /\ (j = Len(s) \/ IsSpace(s[j + 1]))
        nth(k)  == CHOOSE i \in starts : Cardinality({j \in starts : j < i}) = k - 1
    IN  [k \in 1..Cardinality(starts) |-> SubSeq(s, nth(k), last(nth(k)))]

\* The tokens parseLine had of the line it read: none of a line it left at
\* once, else the "!", the command word and the arguments.
Handed(p) ==
    IF p.kind = "blank" THEN <<>>
    ELSE IF p.kind = "bang" THEN <<<<"!">>>>
    ELSE (IF p.raw.neg THEN <<<<"!">>>> ELSE <<>>) \o <<p.raw.word>> \o p.raw.args

\* The text has no quote and no backslash and is not a comment.
Plain(text) ==
    /\ \A i \in 1..Len(text) : text[i] \notin {Quote, Backslash}
    /\ TrimSpace(text) = <<>> \/ Head(TrimSpace(text)) # "#"

\* C27: the step that reads a line without quotes has for tokens the maximal
\* runs of the expanded line that hold no space and no tab, none of them
\* empty; when there is none, the step calls no command and changes nothing
\* but the line counter.
C27_PlainLineSplits ==
    [][(ReadsText /\ Plain(parsed'.raw.text)) =>
          /\ Handed(parsed') = Runs(expandEnvVars(TrimSpace(parsed'.raw.text)))
          /\ \A i \in 1..Len(Handed(parsed')) : Handed(parsed')[i] # <<>>
          /\ Handed(parsed') = <<>> =>
                /\ parsed'.kind = "blank"
                /\ UNCHANGED <<pc, line, lineFatal, failed, skipped, stopped, cd,
                               env, envMap, heap, stdout, stderr, background,
                               jobs, dirs>>]_vars

\* After a Setup hook gave K the value `c c`, the line `c<tab>$K` called the
\* command c with the two arguments c and c.
C27_Witness ==
    /\ parsed.kind = "user"
    /\ parsed.raw.text = <<"c", Tab, "$", "K">>
    /\ parsed.raw.args = <<<<"c">>, <<"c">>>>
    /\ line = parsed.raw
    /\ lineno = 1

(* ------------------------------ C13 ----------------------------------- *)

\* C13: the engine never terminates abnormally, and a line that met a fatal
\* condition has marked its script failed and ended it, on either host.
C13_FatalEndsOnlyTheScript ==
    /\ pc # "panic"
    /\ (lineFatal /\ pc \in {"run", "done", "end"}) => (failed /\ pc # "run")

(* ------------------------------ C14 ----------------------------------- *)

\* A script that ended was reported as failed.
SomeScriptFailed == \E i \in 1..Len(results) : results[i] = "FAIL"

\* C14: with ContinueOnError false, once a script has failed no later script
\* of the suite executes a line, on either host.
C14_FailureStopsSuite ==
    (~params.ContinueOnError /\ SomeScriptFailed /\ pc # "end") => lineno = 0

(* ------------------------------ C15 ----------------------------------- *)

\* A step that reports the verdict of the script that ended.
Reports == Len(results') = Len(results) + 1

\* C15: with ContinueOnError true, a script ends at a line only by that
\* line's own stop, skip or failure, and the verdict reported for a script is
\* FAIL exactly when one of its own lines failed.
C15_ScriptsIndependent ==
    [][params.ContinueOnError =>
         /\ (Dispatches /\ pc' = "done") => (lineFatal' \/ stopped' \/ skipped')
         /\ Reports => ((results'[Len(results')] = "FAIL") <=> lineFatal)]_vars

(* ------------------------------ C17 ----------------------------------- *)

\* C17: the step that executes a skip line does not fail the script, and
\* after it no line of the script is dispatched, on either host.
C17_SkipEndsScript ==
    [][/\ (Dispatches /\ line'.verb = "skip") => (failed' = failed /\ ~lineFatal')
       /\ line.verb = "skip" => ~Dispatches]_vars

(* ------------------------------ C18 ----------------------------------- *)

\* The table the first token of a line must resolve to: built-in names first,
\* then the caller's names, then exec unless explicit exec is required.
ExpectedKind(verb) ==
    IF verb \in {"cd", "cp", "env", "exec", "exists", "grep", "mkdir", "rm",
                 "skip", "stderr", "stdout", "stop", "wait"}
    THEN "builtin"
    ELSE IF verb \in params.Commands THEN "user"
    ELSE IF params.RequireExplicitExec THEN "unknown"
    ELSE "exec"

\* C18: the first token of a dispatched line resolves to the built-in table,
\* else to the caller's table, else (RequireExplicitExec false) the line runs as
\* `exec <the same tokens>` with the same negation flag, else it is a fatal
\* unknown-command error that runs nothing; a caller's command under a
\* built-in's name is never invoked.
C18_ResolutionOrder ==
    (parsed.kind # "") =>
        /\ parsed.kind = ExpectedKind(parsed.raw.verb)
        /\ parsed.kind \in {"builtin", "user", "unknown"} => line = parsed.raw
        /\ parsed.kind = "exec" =>
              /\ line.verb = "exec"
              /\ line.neg = parsed.raw.neg
              /\ line.args = <<Word(parsed.raw.verb)>> \o parsed.raw.args
              /\ LineEnded => (lineFatal <=>
                                 \/ ~LookPath(line.args[1])
                                 \/ (ExitCode(line.args[1]) = 0) = line.neg)
        /\ parsed.kind = "unknown" =>
              /\ lineFatal /\ failed /\ pc = "done"
              /\ lineno = 1 => /\ cd = WorkDir
                               /\ dirs = {}
                               /\ stdout = <<>> /\ stderr = <<>>
                               /\ jobs = <<>>
                               /\ SliceVal(heap, env) = InitEnv

\* A line `cd d` was handled by the built-in cd although the caller registered
\* a command named cd; and a line `! ko` ran the program ko and passed.
C18_Witness ==
    /\ "cd" \in params.Commands
    /\ ~params.RequireExplicitExec
    /\ lineno = 3
    /\ cd = JoinPath(WorkDir, SubDir)
    /\ parsed = [kind |-> "exec", raw |-> Ln(TRUE, "ko", <<>>)]
    /\ stdout = ProgStdout(ProgKo)
    /\ ~lineFatal

(* ------------------------------ C28 ----------------------------------- *)

\* The step is the dispatch of an http line.
HTTPStep == lineno' = lineno + 1 /\ line'.verb = "http"

\* The response the server gives to the request of the line.
Answer(l) == Serve(l.args[1], l.args[2])

StatusStep ==
    lineno' = lineno + 1 /\ line'.verb = "httpstatus" /\ httpState # NoHTTP

SpecifierGrammar(tok) ==
    /\ Len(tok) > 0
    /\ tok[1] = "&"
    /\ Tail(tok) = <<>> \/ IsIdent(Tail(tok))

\* The step dispatches an exec line of several tokens whose program is found.
ExecStep ==
    /\ lineno' = lineno + 1
    /\ line'.verb = "exec"
    /\ Len(line'.args) >= 1
    /\ Resolves(line'.args[1])

\* C36: an exec line starts a background job exactly when its last token is
\* `&` alone or `&` followed by an identifier; with any other last token
\* (`&&`, `&a&`, `&1x`) the program runs in the foreground, its output the
\* last stdout, and no job is spawned.
C36_BackgroundGrammar ==
    [][ExecStep =>
          IF Len(line'.args) >= 2
             /\ SpecifierGrammar(line'.args[Len(line'.args)])
          THEN Len(jobs') = Len(jobs) + 1 \/ lineFatal'
          ELSE /\ jobs' = jobs
               /\ stdout' = ProgStdout(line'.args[1])]_vars

(* ------------------------------ C37 ----------------------------------- *)

\* C37: when a script line is dispatched, the process of every job that an
\* earlier background exec line spawned has been started (or its start has
\* failed): cmd.Start happens before every later line.
C37_StartBeforeNextLine ==
    [][(lineno' = lineno + 1) =>
          \A j \in 1..Len(jobs) : jobs[j].st # "pending"]_vars

(* ------------------------------ C38 ----------------------------------- *)

\* C38: a wait that joins a job whose process could not be started leaves
\* the script failed (unless its spawn line already failed it), whatever the
\* job's negation flag: a start error is never a successful exit.
C38_StartErrorFailsScript ==
    [][(/\ WaitEnds
        /\ KnownNames(line', background)
        /\ \E i \in 1..Len(JoinedBy(line', background)) :
              jobs[JoinedBy(line', background)[i].job].st = "startfailed")
          => failed']_vars

(* ------------------------------ C39 ----------------------------------- *)

\* The name generated for a spawn without an identifier: bg and the number
\* of live jobs.
ImplicitName(bg) == <<"b", "g">> \o Itoa(Len(bg))

\* C39: when a background exec without an identifier is dispatched, the name
\* generated for it is the name of no live job, so the line does not fail as
\* a duplicate.
C39_ImplicitNameFresh ==
    [][(/\ lineno' = lineno + 1
        /\ line'.verb = "exec"
        /\ Len(line'.args) >= 2
        /\ line'.args[Len(line'.args)] = <<"&">>)
          => /\ \A i \in 1..Len(background) :
                    background[i].name # ImplicitName(background)
             /\ ~lineFatal']_vars

(* ------------------------------ C40 ----------------------------------- *)

\* The run of a script is over: finalize removes its work directory and the
\* next script starts, or the suite ends.
RunOver == pc = "done" /\ pc' \in {"run", "end"}

\* C40: when the run of a script is over, however it ended, no job is left
\* behind: the process of every job that was spawned has ended (it was
\* joined by a wait, or it was terminated).
C40_NoJobLeftBehind ==
    [][RunOver =>
          \A j \in 1..Len(jobs) : jobs[j].st \in {"exited", "startfailed"}]_vars

(* ------------------------------ C35 ----------------------------------- *)

\* The step delivers the signal sig to the process of call j.
Sends(j, sig) == jobs'[j].sent = Append(jobs[j].sent, sig)

\* C35: forced termination escalates in order. No signal reaches the process
\* before the context is cancelled; the first signal is an interrupt; a kill
\* follows the interrupt only when the grace period has elapsed and the
\* process has still not exited.
C35_InterruptThenKill ==
    [][\A j \in 1..Len(jobs) :
          /\ jobs'[j].sent # jobs[j].sent => jobs[j].cancelled
          /\ Sends(j, "interrupt") => jobs[j].sent = <<>>
          /\ Sends(j, "kill") => /\ jobs[j].sent = <<"interrupt">>
                                 /\ jobs[j].elapsed
                                 /\ jobs[j].st = "running"]_vars

(* ------------------------------ C34 ----------------------------------- *)

\* C34: when the global setup script exits nonzero the project run ends in
\* an error, no script has executed a line, the teardown has not run and the
\* wrapper directory is removed; when the setup passed, the teardown runs
\* only after the scripts, and once the run has returned it has run exactly
\* once, the scripts failed or not.
C34_SetupGatesProject ==
    (project # NoProject) =>
        /\ (project.at = "returned" /\ project.setup = "failed") =>
              /\ project.err
              /\ lineno = 0 /\ line = NoLine /\ script = 1 /\ results = <<>>
              /\ project.teardowns = 0
              /\ ~project.wrapper
        /\ project.teardowns > 0 =>
              /\ project.at = "returned"
              /\ results # <<>>
        /\ (project.at = "returned" /\ project.setup # "failed") =>
              /\ project.teardowns = (IF project.cfg.teardown THEN 1 ELSE 0)
              /\ ~project.wrapper

\* C34 witness: a project with a bin directory and a teardown script whose
\* setup failed; the call has returned.
C34_Witness ==
    /\ project # NoProject
    /\ project.at = "returned"
    /\ project.setup = "failed"
    /\ project.cfg.bin
    /\ project.cfg.teardown
    /\ host = "standalone"
    /\ project.err

(* ------------------------------ C31 ----------------------------------- *)

\* The step is the dispatch of a repeat line.
RepeatStep == lineno' = lineno + 1 /\ line'.verb = "repeat"

IterationStep == RepeatStep /\ RepeatOf(line').verb \in {WordExec, WordHTTP}

\* Without -all no iteration runs after one that failed.
StopsAtFirstFailure(runs) == \A i \in 1..(Len(runs) - 1) : runs[i]

\* The requests the flaky server got in the step are the iterations of an
\* http line.
ServerCounts(runs) ==
    (RepeatOf(line').verb = WordHTTP) => flakyCount' = flakyCount + Len(runs)

Passing(r, s) == {i \in 1..r.count : IterationPasses(r, s + i)}

====
